---- MODULE Spec2Model ----
(***************************************************************************)
(* A model of the remote-access gateway of the media vault:                *)
(*   - the Session Capture Controller (server/services/terabox.ts),        *)
(*   - the Token Store (SQLiteStorage) and the /api/auth routes,           *)
(*   - the Streaming/Download Gateway (/api/stream, /api/download),        *)
(*   - share URL resolution and the two metadata fetches (extractSurl,     *)
(*     fetchPublicMetadata, fetchAuthenticatedMetadata),                   *)
(*   - the library tables with the queue routes and the auth-fetch route.  *)
(*                                                                         *)
(* Every handler is an async function: it runs without interruption up to  *)
(* its next await, so one action of the model is one such run.  Each       *)
(* browser, each start()/close() call and each HTTP request is one slot of *)
(* a bounded set; slots are used in order, which loses no behaviour        *)
(* because they are interchangeable.                                       *)
(***************************************************************************)
EXTENDS Integers, Sequences, FiniteSets, TLC

(***************************************************************************)
(* Bounds of the model.                                                    *)
(***************************************************************************)
MaxStarts == 2
MaxCloses == 1
MaxPolls == 3
MaxObs == 2
MaxSingleStarts == 1

StartCalls == 1..MaxStarts
CloseCalls == 1..MaxCloses
Polls == 1..MaxPolls
\* the start() calls made where a single capture session is studied
SingleStarts == 1..MaxSingleStarts

\* the longest share identifier and the longest pathname that are tried
MaxIdLen == 2
MaxPathLen == 4

\* the longest remote listing
MaxList == 2

\* the number of URLs that are ever put in the queue, and the number of
\* failed fetches after which a queue item is not fetched again
MaxItems == 1
MaxAttempts == 1

\* the requests that one route serves at a time
MaxRequests == 2
Requests == 1..MaxRequests

\* the mpv processes a run spawns, the load() calls in flight
MaxSpawns == 3
MaxLoads == 1
Processes == 1..MaxSpawns
Loads == 1..MaxLoads

\* the number of containers in the library where duplicates are detected
MaxContainers == 2

(***************************************************************************)
(* Program constants and values.                                           *)
(***************************************************************************)
\* jsToken.length < 20 is rejected by the request observer
MinJsTokenLen == 20

\* activeBrowserContext = null; a context is named by the start() call that
\* launched it
NoContext == 0

\* authData is absent from every session but a captured one
NoAuthData == [provider |-> "none", jsToken |-> ""]

\* activeAuthSession = null
NoSession ==
  [sessionId |-> -1, status |-> "null", message |-> "", authData |-> NoAuthData]

\* an AuthSessionState object literal without authData
Session(id, st, msg) ==
  [sessionId |-> id, status |-> st, message |-> msg, authData |-> NoAuthData]

\* The outbound requests a page can make: the URL carries "jsToken=" or not,
\* and the value of the parameter with its length.
PageRequests ==
  { [hasJsToken |-> FALSE, jsToken |-> "", len |-> 0],
    [hasJsToken |-> TRUE, jsToken |-> "", len |-> 0],
    [hasJsToken |-> TRUE, jsToken |-> "short", len |-> 19],
    [hasJsToken |-> TRUE, jsToken |-> "tokA", len |-> 20],
    [hasJsToken |-> TRUE, jsToken |-> "tokB", len |-> 32] }

VARIABLES
  now,                  \* Date.now(), in milliseconds
  activeAuthSession,    \* module variable of terabox.ts
  activeBrowserContext, \* module variable of terabox.ts
  open,                 \* the browsers (by launching start() call) that are open
  spc,                  \* start() call -> where it stands
  sid,                  \* start() call -> its const sessionId
  captured,             \* start() call -> its closure's let captured
  sret,                 \* start() call -> the session it returned
  early,                \* the session the last early return of start() gave
  obs,                  \* cookie reads in progress, started by request observers
  cpc,                  \* close() call -> where it stands
  ctarget,              \* close() call -> the context whose close() it awaits
  preClose,             \* history: start() calls begun before a close() returned
  tokens,               \* rows of auth_tokens, in insertion order
  qpc,                  \* GET /api/auth/status request -> where it stands
  qdata,                \* GET /api/auth/status request -> authData it saves
  qres,                 \* the status GET /api/auth/status reported last
  overlapped,           \* history: saveAuthToken calls that overlapped another
  revoked,              \* history: what was under way at the last invalidation
  gpc,                  \* gateway request: where its handler stands
  greq,                 \* gateway request: route, Range header, stored file
  gout,                 \* gateway request: Range header sent upstream
  gup,                  \* gateway request: the upstream response
  gres,                 \* gateway request: the local response
  grelay,               \* gateway request: the client, the pipe, the upstream body
  xurl,                 \* extractSurl: the URL it was last given
  xres,                 \* extractSurl: what it returned
  apc,                  \* fetchAuthenticatedMetadata: where the call stands
  acalls,               \* fetchAuthenticatedMetadata: the fetchList calls made
  aroot,                \* fetchAuthenticatedMetadata: const rootData
  ainner,               \* fetchAuthenticatedMetadata: const innerData
  ares,                 \* fetchAuthenticatedMetadata: what it returned
  ppc,                  \* fetchPublicMetadata: where the call stands
  pbrowser,             \* fetchPublicMetadata: the headless browser
  pdata,                \* fetchPublicMetadata: the shorturlinfo answer
  pres,                 \* fetchPublicMetadata: its return value, or the throw
  queue,                \* rows of public_fetch_queue
  containers,           \* rows of containers
  files,                \* rows of files
  added,                \* history: the number of rows ever put in the queue
  bleft,                \* addToPublicFetchQueue: the urls still to insert
  lres,                 \* POST /api/containers[/bulk]: status of the last response
  rqpc,                 \* public-fetch request -> where it stands
  rqitem,               \* public-fetch request -> const queueItem
  rqresult,             \* public-fetch request -> const result
  rqmade,               \* public-fetch request -> const container (id)
  rqres,                \* public-fetch request -> status of the response
  rapc,                 \* auth-fetch request -> where it stands
  racid,                \* auth-fetch request -> req.params.id
  ratoken,              \* auth-fetch request -> const token
  raresult,             \* auth-fetch request -> const result
  raleft,               \* auth-fetch request -> items still to store
  rares,                \* auth-fetch request -> the response
  duplicates,           \* rows of duplicate_records
  dpc,                  \* detectDuplicates: where the call stands
  dlist,                \* detectDuplicates: const containers
  dpairs,               \* detectDuplicates: const existingPairs
  dij,                  \* detectDuplicates: the loop variables i and j
  dnew,                 \* detectDuplicates: const newDuplicates
  dquiet,               \* history: no row was deleted since the last run began
  dsecond,              \* history: this run follows a run, and no row was deleted since
  player,               \* MpvController: this.player, the mpv process it drives
  initialized,          \* MpvController: this.initialized
  initializing,         \* MpvController: this.initializing
  initPromise,          \* MpvController: this.initPromise, <<>> for null
  isBuffering,          \* MpvController: this.status.isBuffering
  mprocs,               \* mpv process -> "none", "running", "exited"
  mlistening,           \* the processes whose crashed and quit events are heard
  mruns,                \* the doInitialize() runs in their start-up wait
  mload,                \* load() call -> where it stands, what it awaits
  mquit                 \* quit(): the player whose quit() it awaits

authVars ==
  <<now, activeAuthSession, activeBrowserContext, open, spc, sid, captured,
    sret, early, obs, cpc, ctarget, preClose>>

tokenVars == <<tokens, qpc, qdata, qres, overlapped, revoked>>

gatewayVars == <<gpc, greq, gout, gup, gres, grelay>>

resolveVars == <<xurl, xres>>

listVars == <<apc, acalls, aroot, ainner, ares>>

publicVars == <<ppc, pbrowser, pdata, pres>>

tableVars == <<queue, containers, files, added>>

queueVars == <<bleft, lres, rqpc, rqitem, rqresult, rqmade, rqres>>

authFetchVars == <<rapc, racid, ratoken, raresult, raleft, rares>>

libraryVars == <<tableVars, queueVars, authFetchVars>>

duplicateVars == <<duplicates, dpc, dlist, dpairs, dij, dnew, dquiet, dsecond>>

mpvVars ==
  <<player, initialized, initializing, initPromise, isBuffering, mprocs,
    mlistening, mruns, mload, mquit>>

vars ==
  <<authVars, tokenVars, gatewayVars, resolveVars, listVars, publicVars,
    libraryVars, duplicateVars, mpvVars>>

\* what the actions of one component leave alone
outsideAuth ==
  <<tokenVars, gatewayVars, resolveVars, listVars, publicVars, libraryVars, duplicateVars, mpvVars>>
outsideTokens ==
  <<authVars, gatewayVars, resolveVars, listVars, publicVars, libraryVars, duplicateVars, mpvVars>>
outsideGateway ==
  <<authVars, tokenVars, resolveVars, listVars, publicVars, libraryVars, duplicateVars, mpvVars>>
outsideResolve ==
  <<authVars, tokenVars, gatewayVars, listVars, publicVars, libraryVars, duplicateVars, mpvVars>>
outsideList ==
  <<authVars, tokenVars, gatewayVars, resolveVars, publicVars, libraryVars, duplicateVars, mpvVars>>
outsidePublic ==
  <<authVars, tokenVars, gatewayVars, resolveVars, listVars, libraryVars, duplicateVars, mpvVars>>
\* the queue routes call fetchPublicMetadata
outsideQueue ==
  <<authVars, tokenVars, gatewayVars, resolveVars, listVars, authFetchVars, duplicateVars, mpvVars>>
\* detectDuplicates and the duplicates routes read and delete containers
outsideDuplicates ==
  <<authVars, tokenVars, gatewayVars, resolveVars, listVars, publicVars,
    queueVars, authFetchVars, queue, files, added, mpvVars>>
\* the auth-fetch route reads the tokens and calls fetchAuthenticatedMetadata
outsideAuthFetch ==
  <<authVars, tokenVars, gatewayVars, resolveVars, publicVars, queueVars, duplicateVars, mpvVars>>
outsideMpv ==
  <<authVars, tokenVars, gatewayVars, resolveVars, listVars, publicVars,
    libraryVars, duplicateVars>>

(***************************************************************************)
(* Session Capture Controller                                              *)
(***************************************************************************)

\* the slots of a call set are used in order
IsNext(pc, p) == pc[p] = "idle" /\ \A r \in DOMAIN pc : r < p => pc[r] # "idle"

\* no request of a route is in flight
Quiet(pc) == \A r \in DOMAIN pc : pc[r] = "idle"

\* if (activeAuthSession && activeAuthSession.status === "waiting_for_login")
AlreadyWaiting ==
  activeAuthSession # NoSession /\ activeAuthSession.status = "waiting_for_login"

\* startAuthSession() that, finding a session waiting for login, starts over
StartReplacesExisting ==
  /\ AlreadyWaiting
  /\ activeAuthSession' = Session(now, "pending", "starting")
  /\ early' = activeAuthSession'
  /\ UNCHANGED <<now, activeBrowserContext, open, spc, sid, captured, sret,
                 obs, cpc, ctarget, preClose, outsideAuth>>

\* startAuthSession() that finds a session waiting for login: the early
\* return.  The call has no locals that outlive it, so it takes no slot.
StartReturnsExisting ==
  /\ AlreadyWaiting
  /\ early' = activeAuthSession
  /\ UNCHANGED <<now, activeAuthSession, activeBrowserContext, open, spc, sid,
                 captured, sret, obs, cpc, ctarget, preClose, outsideAuth>>

\* startAuthSession() otherwise, up to its first await: a new pending
\* session and the launch of a browser
StartCall(p) ==
  /\ IsNext(spc, p)
  /\ ~AlreadyWaiting
  /\ sid' = [sid EXCEPT ![p] = now]
  /\ activeAuthSession' = Session(now, "pending", "starting")
  /\ spc' = [spc EXCEPT ![p] = "launching"]
  /\ UNCHANGED <<early, now, activeBrowserContext, open, captured, sret, obs,
                 cpc, ctarget, preClose, outsideAuth>>

\* launchPersistentContext resolved: the browser is open, both handlers are
\* installed on it and page.goto is under way.  Spawning the browser takes
\* time: the clock has advanced since the call.
LaunchOk(p) ==
  /\ spc[p] = "launching"
  /\ now > sid[p]
  /\ activeBrowserContext' = p
  /\ open' = open \cup {p}
  /\ spc' = [spc EXCEPT ![p] = "navigating"]
  /\ UNCHANGED <<early, now, activeAuthSession, sid, captured, sret, obs, cpc, ctarget,
                 preClose, outsideAuth>>

\* launchPersistentContext rejected: the catch block
LaunchFail(p) ==
  /\ spc[p] = "launching"
  /\ now > sid[p]
  /\ activeAuthSession' = Session(sid[p], "failed", "launch error")
  /\ sret' = [sret EXCEPT ![p] = activeAuthSession']
  /\ spc' = [spc EXCEPT ![p] = "done"]
  /\ UNCHANGED <<early, now, activeBrowserContext, open, sid, captured, obs, cpc,
                 ctarget, preClose, outsideAuth>>

\* page.goto resolved (the page is still there): the rest of the try block
GotoOk(p) ==
  /\ spc[p] = "navigating"
  /\ p \in open
  /\ activeAuthSession' = Session(sid[p], "waiting_for_login", "browser opened")
  /\ sret' = [sret EXCEPT ![p] = activeAuthSession']
  /\ spc' = [spc EXCEPT ![p] = "done"]
  /\ UNCHANGED <<early, now, activeBrowserContext, open, sid, captured, obs, cpc,
                 ctarget, preClose, outsideAuth>>

\* page.goto rejected (navigation error, or the browser was closed): the
\* catch block
GotoFail(p) ==
  /\ spc[p] = "navigating"
  /\ activeAuthSession' = Session(sid[p], "failed", "navigation error")
  /\ sret' = [sret EXCEPT ![p] = activeAuthSession']
  /\ spc' = [spc EXCEPT ![p] = "done"]
  /\ UNCHANGED <<early, now, activeBrowserContext, open, sid, captured, obs, cpc,
                 ctarget, preClose, outsideAuth>>

\* the request passes the observer's early returns
Qualifies(p, req) ==
  /\ ~captured[p]
  /\ req.hasJsToken
  /\ req.jsToken # ""
  /\ req.len >= MinJsTokenLen

\* page.on("request") of the browser of start() call p, up to its await:
\* cookies() is called on whatever activeBrowserContext is at that moment;
\* on null the TypeError is caught and logged
ObserveRequest(p, req) ==
  /\ p \in open
  /\ IF Qualifies(p, req) /\ activeBrowserContext # NoContext
       THEN /\ Cardinality(obs) < MaxObs
            /\ obs' = obs \cup {[owner |-> p, target |-> activeBrowserContext,
                                 jsToken |-> req.jsToken]}
       ELSE UNCHANGED obs
  /\ UNCHANGED <<early, now, activeAuthSession, activeBrowserContext, open, spc, sid,
                 captured, sret, cpc, ctarget, preClose, outsideAuth>>

\* cookies() settled: it resolves while its context is open, and the observer
\* stores the success session and sets captured; it rejects once the context
\* is closed, and the catch block only logs
CookiesDone(o) ==
  /\ o \in obs
  /\ obs' = obs \ {o}
  /\ IF o.target \in open
       THEN /\ activeAuthSession' =
                 [sessionId |-> sid[o.owner], status |-> "success",
                  message |-> "captured",
                  authData |-> [provider |-> "terabox", jsToken |-> o.jsToken]]
            /\ captured' = [captured EXCEPT ![o.owner] = TRUE]
       ELSE UNCHANGED <<activeAuthSession, captured>>
  /\ UNCHANGED <<early, now, activeBrowserContext, open, spc, sid, sret, cpc, ctarget,
                 preClose, outsideAuth>>

\* activeBrowserContext.on("close") of the browser of start() call p: the
\* user closed the window, or close() was called on the context
BrowserClosed(p) ==
  /\ p \in open
  /\ open' = open \ {p}
  /\ activeAuthSession' =
       IF ~captured[p] /\ activeAuthSession.status # "success"
         THEN Session(sid[p], "failed", "browser closed before capture")
         ELSE activeAuthSession
  /\ activeBrowserContext' = NoContext
  /\ UNCHANGED <<early, now, spc, sid, captured, sret, obs, cpc, ctarget, preClose,
                 outsideAuth>>

\* the start() calls made so far
Begun == {p \in StartCalls : spc[p] # "idle"}

\* closeAuthSession() up to its await, or to its end when no context is set
CloseCall(c) ==
  /\ IsNext(cpc, c)
  /\ IF activeBrowserContext # NoContext
       THEN /\ ctarget' = [ctarget EXCEPT ![c] = activeBrowserContext]
            /\ cpc' = [cpc EXCEPT ![c] = "closing"]
            /\ UNCHANGED <<activeAuthSession, preClose>>
       ELSE /\ activeAuthSession' = NoSession
            /\ preClose' = preClose \cup Begun
            /\ UNCHANGED <<cpc, ctarget>>
  /\ UNCHANGED <<early, now, activeBrowserContext, open, spc, sid, captured, sret, obs,
                 outsideAuth>>

\* the rest of closeAuthSession(), had the session been cleared only on
\* the path that found no context
CloseReturnKeepsSession(c) ==
  /\ cpc[c] = "closing"
  /\ ctarget[c] \notin open
  /\ activeBrowserContext' = NoContext
  /\ cpc' = [cpc EXCEPT ![c] = "idle"]
  /\ ctarget' = [ctarget EXCEPT ![c] = NoContext]
  /\ preClose' = preClose \cup Begun
  /\ UNCHANGED <<early, now, activeAuthSession, open, spc, sid, captured, sret, obs,
                 outsideAuth>>

\* context.close() resolved (the browser is closed, its close handler has
\* run): the rest of closeAuthSession()
CloseReturn(c) ==
  /\ cpc[c] = "closing"
  /\ ctarget[c] \notin open
  /\ activeBrowserContext' = NoContext
  /\ activeAuthSession' = NoSession
  /\ cpc' = [cpc EXCEPT ![c] = "idle"]
  /\ ctarget' = [ctarget EXCEPT ![c] = NoContext]
  /\ preClose' = preClose \cup Begun
  /\ UNCHANGED <<early, now, open, spc, sid, captured, sret, obs, outsideAuth>>

\* the clock moves on.  Date.now() is only read for the sessionId, so only
\* a move past a value that a start() call has read can be told apart.
Tick ==
  /\ \E p \in StartCalls : sid[p] = now
  /\ now' = now + 1
  /\ UNCHANGED <<early, activeAuthSession, activeBrowserContext, open, spc, sid,
                 captured, sret, obs, cpc, ctarget, preClose, outsideAuth>>

(***************************************************************************)
(* Token Store and the /api/auth routes                                    *)
(***************************************************************************)

\* UPDATE auth_tokens SET status = 'expired' WHERE status = 'active'
Demote(rows) ==
  [i \in DOMAIN rows |->
     IF rows[i].status = "active" THEN [rows[i] EXCEPT !.status = "expired"]
                                  ELSE rows[i]]

\* INSERT INTO auth_tokens: a row with a fresh id and status active
Insert(rows, authData) ==
  Append(rows, [id |-> Len(rows) + 1, provider |-> authData.provider,
                jsToken |-> authData.jsToken, status |-> "active"])

\* what GET /api/auth/status reports: the "none" sentinel, or the session
StatusReport(session) ==
  IF session = NoSession THEN "none" ELSE session.status

\* the saveAuthToken calls in progress
Saving == {q \in Polls : qpc[q] \in {"invalidate", "insert"}}

\* the session carries a captured token to save
HasToken(session) ==
  /\ session # NoSession
  /\ session.status = "success"
  /\ session.authData # NoAuthData

\* GET /api/auth/status with nothing to save: the "none" sentinel or the
\* session as it is.  The request awaits nothing, so it takes no slot.
StatusRoute ==
  /\ ~HasToken(activeAuthSession)
  /\ qres' = StatusReport(activeAuthSession)
  /\ UNCHANGED <<outsideTokens, revoked, tokens, qpc, qdata, overlapped>>

\* saveAuthToken(authData) entered: its caller now awaits it
saveAuthToken(q, authData) ==
  /\ IsNext(qpc, q)
  /\ qdata' = [qdata EXCEPT ![q] = authData]
  /\ qpc' = [qpc EXCEPT ![q] = "invalidate"]
  /\ overlapped' = IF Saving = {} THEN overlapped
                                  ELSE overlapped \cup Saving \cup {q}
  /\ UNCHANGED <<tokens, revoked>>

\* GET /api/auth/status of a successful session, up to its first await:
\* the start of saveAuthToken(session.authData)
PollCall(q) ==
  /\ HasToken(activeAuthSession)
  /\ qres' = StatusReport(activeAuthSession)
  /\ saveAuthToken(q, activeAuthSession.authData)
  /\ UNCHANGED outsideTokens

\* the authData a capture can produce
AuthDatas ==
  { [provider |-> "terabox", jsToken |-> req.jsToken] :
      req \in {r \in PageRequests : r.hasJsToken /\ r.len >= MinJsTokenLen} }

\* storage.saveAuthToken(authData) called on the Token Store directly
SaveCall(q, authData) ==
  /\ saveAuthToken(q, authData)
  /\ UNCHANGED <<outsideTokens, revoked, qres>>

\* saveAuthToken, had it not demoted the active rows before the insert
SaveWithoutInvalidate(q) ==
  /\ qpc[q] = "invalidate"
  /\ qpc' = [qpc EXCEPT ![q] = "insert"]
  /\ UNCHANGED <<outsideTokens, revoked, tokens, qdata, qres, overlapped>>

\* saveAuthToken: await this.invalidateAuthTokens()
SaveInvalidate(q) ==
  /\ qpc[q] = "invalidate"
  /\ tokens' = Demote(tokens)
  /\ qpc' = [qpc EXCEPT ![q] = "insert"]
  /\ UNCHANGED <<outsideTokens, revoked, qdata, qres, overlapped>>

\* saveAuthToken: await db.insert(...), and the response of the route
SaveInsert(q) ==
  /\ qpc[q] = "insert"
  /\ tokens' = Insert(tokens, qdata[q])
  /\ qpc' = [qpc EXCEPT ![q] = "done"]
  /\ UNCHANGED <<outsideTokens, revoked, qdata, qres, overlapped>>

\* POST /api/auth/invalidate
InvalidateRoute ==
  /\ tokens' = Demote(tokens)
  /\ revoked' = [done |-> TRUE, begun |-> Begun, saving |-> Saving # {}]
  /\ UNCHANGED <<outsideTokens, qpc, qdata, qres, overlapped>>

(***************************************************************************)
(* Streaming/Download Gateway                                              *)
(***************************************************************************)

\* req.headers.range is undefined
NoRange == "<undefined>"

\* the values of the inbound Range header
Ranges == {NoRange, "", "bytes=0-", "bytes=0-499", "bytes=1000-2000"}

\* no upstream response (none yet, or fetch rejected)
NoUpstream == [status |-> 0, contentRange |-> "", hasBody |-> FALSE]

\* what upstream can answer, whatever was asked
Upstreams ==
  [status : {200, 206, 401, 403, 404, 500},
   contentRange : {"", "bytes 0-4999/5000", "bytes 1000-2000/5000"},
   hasBody : BOOLEAN]

\* the local response before the handler has touched it; ended is
\* res.writableEnded, ends counts the calls of res.end() that found it false
NoResponse ==
  [status |-> 0, error |-> "", expired |-> FALSE, contentRange |-> "",
   contentDisposition |-> "", relay |-> FALSE, ended |-> FALSE, ends |-> 0]

\* the relay before fetch() has resolved: the client is connected, nothing
\* is piped, no upstream body is held, the body stream has emitted nothing
NoRelay ==
  [client |-> "connected", piped |-> FALSE, upstream |-> "none",
   emitted |-> <<>>]

\* the relay once fetch() resolved with response up: the body of the
\* response holds the upstream connection, and is piped if relayed
Relay(up, relayed) ==
  [client |-> "connected", piped |-> relayed /\ up.hasBody,
   upstream |-> IF up.hasBody THEN "open" ELSE "none", emitted |-> <<>>]

\* res.status(status).json({error, expired, ...})
JsonError(status, error, expired) ==
  [NoResponse EXCEPT !.status = status, !.error = error, !.expired = expired,
                     !.ended = TRUE, !.ends = 1]

\* response.ok
Ok(status) == status >= 200 /\ status <= 299

\* /api/stream: if (!response.ok && response.status !== 206)
StreamFailed(up) == ~Ok(up.status) /\ up.status # 206

\* /api/download: if (!response.ok)
DownloadFailed(up) == ~Ok(up.status)

\* the classification, had it known 403 only
ExpiredOn403(status) == status = 403

\* const expired = response.status === 401 || response.status === 403
Expired(status) == status = 401 \/ status = 403

\* a header value that is neither undefined nor the empty string
Truthy(range) == range # NoRange /\ range # ""

\* the test, had it left out the request without a Range header
IsOpeningProbe(range) == range = "bytes=0-"

\* const isInitialRange = range === "bytes=0-" || !range
IsInitialRange(range) == range = "bytes=0-" \/ ~Truthy(range)

\* const statusCode = isInitialRange ? 200 : 206
StatusCode(range) == IF IsInitialRange(range) THEN 200 ELSE 206

\* the Content-Range header left by the loop that forwards upstream headers
ForwardedContentRange(range, up) ==
  IF IsInitialRange(range) THEN "" ELSE up.contentRange

\* the handler up to fetch(): 404 without the file, 400 without a link,
\* the inbound Range header copied to the outbound request of /api/stream
GatewayCall(route, range, file) ==
  /\ gpc = "idle"
  /\ greq' = [route |-> route, range |-> range, file |-> file]
  /\ CASE file = "missing" ->
            /\ gres' = JsonError(404, "File not found", FALSE)
            /\ gpc' = "done"
            /\ UNCHANGED gout
       [] file = "nolink" ->
            /\ gres' = JsonError(400, "No URL available", FALSE)
            /\ gpc' = "done"
            /\ UNCHANGED gout
       [] OTHER ->
            /\ gout' = IF route = "stream" /\ Truthy(range) THEN range ELSE NoRange
            /\ gpc' = "fetching"
            /\ UNCHANGED gres
  /\ UNCHANGED <<outsideGateway, gup, grelay>>

\* /api/stream once fetch() resolved: the error result, or the status, the
\* forwarded headers and the start of the body relay
StreamRespond(up) ==
  /\ gpc = "fetching"
  /\ greq.route = "stream"
  /\ gup' = up
  /\ IF StreamFailed(up)
       THEN /\ gres' = JsonError(up.status, "Stream failed", Expired(up.status))
            /\ gpc' = "done"
            /\ grelay' = Relay(up, FALSE)
       ELSE /\ grelay' = Relay(up, TRUE)
            /\ gres' = [NoResponse EXCEPT
                          !.status = StatusCode(greq.range),
                          !.contentRange = ForwardedContentRange(greq.range, up),
                          !.contentDisposition = "inline",
                          !.relay = up.hasBody,
                          !.ended = ~up.hasBody,
                          !.ends = IF up.hasBody THEN 0 ELSE 1]
            /\ gpc' = IF up.hasBody THEN "relaying" ELSE "done"
  /\ UNCHANGED <<outsideGateway, greq, gout>>

\* /api/download once fetch() resolved: the error result, or the attachment
\* headers and the start of the body relay
DownloadRespond(up) ==
  /\ gpc = "fetching"
  /\ greq.route = "download"
  /\ gup' = up
  /\ IF DownloadFailed(up)
       THEN /\ gres' = JsonError(up.status, "Download failed", Expired(up.status))
            /\ gpc' = "done"
            /\ grelay' = Relay(up, FALSE)
       ELSE /\ grelay' = Relay(up, TRUE)
            /\ gres' = [NoResponse EXCEPT
                          !.status = 200,
                          !.contentDisposition = "attachment",
                          !.relay = up.hasBody,
                          !.ended = ~up.hasBody,
                          !.ends = IF up.hasBody THEN 0 ELSE 1]
            /\ gpc' = IF up.hasBody THEN "relaying" ELSE "done"
  /\ UNCHANGED <<outsideGateway, greq, gout>>

\* fetch() rejected: the catch block, with no header sent yet
FetchFailed ==
  /\ gpc = "fetching"
  /\ gres' = JsonError(500, "Failed", FALSE)
  /\ gpc' = "done"
  /\ UNCHANGED <<outsideGateway, greq, gout, gup, grelay>>

\* if (!res.writableEnded) res.end()
EndOnce(response) ==
  IF response.ended THEN response
  ELSE [response EXCEPT !.ended = TRUE, !.ends = response.ends + 1]

\* res.end(), whatever res.writableEnded is
EndAgain(response) ==
  [response EXCEPT !.ended = TRUE, !.ends = response.ends + 1]

\* the body stream has emitted the event
Emitted(event) == \E i \in DOMAIN grelay.emitted : grelay.emitted[i] = event

\* the upstream body stream emitted end: it was read to its end while its
\* consumer was there, or the transport emits end after error.  /api/stream
\* ends the response in its end listener, pipe() does it for /api/download.
\* The upstream connection, its body consumed, is released
BodyEnd ==
  /\ gres.relay
  /\ ~Emitted("end")
  /\ grelay.piped \/ Emitted("error")
  /\ gres' = IF greq.route = "stream" THEN EndOnce(gres) ELSE EndAgain(gres)
  /\ grelay' = [grelay EXCEPT !.piped = FALSE, !.upstream = "released",
                              !.emitted = Append(@, "end")]
  /\ gpc' = "done"
  /\ UNCHANGED <<outsideGateway, greq, gout, gup>>

\* the error listener, had it ended the response without the test
BodyErrorEndsAgain ==
  /\ gres.relay
  /\ ~Emitted("error")
  /\ gres' = EndAgain(gres)
  /\ grelay' = [grelay EXCEPT !.piped = FALSE, !.upstream = "released",
                              !.emitted = Append(@, "error")]
  /\ gpc' = "done"
  /\ UNCHANGED <<outsideGateway, greq, gout, gup>>

\* the upstream body stream emitted error (the remote end failed or timed
\* out, or the transport emits error after end): the error listener runs
\* if (!res.writableEnded) res.end(); the errored stream is destroyed
BodyError ==
  /\ gres.relay
  /\ ~Emitted("error")
  /\ gres' = EndOnce(gres)
  /\ grelay' = [grelay EXCEPT !.piped = FALSE, !.upstream = "released",
                              !.emitted = Append(@, "error")]
  /\ gpc' = "done"
  /\ UNCHANGED <<outsideGateway, greq, gout, gup>>

\* the local client went away while the body is relayed.  Neither route
\* listens for close on req or res and neither passes fetch() an abort
\* signal: all that happens is what pipe() does when its destination
\* closes, which is to unpipe and pause the source.
ClientDisconnect ==
  /\ gpc = "relaying"
  /\ grelay.client = "connected"
  /\ grelay' = [grelay EXCEPT !.client = "gone", !.piped = FALSE]
  /\ UNCHANGED <<outsideGateway, gpc, greq, gout, gup, gres>>

\* the handler is ready for another request
NextRequest ==
  /\ gpc = "done"
  /\ gpc' = "idle"
  /\ greq' = [route |-> "", range |-> NoRange, file |-> ""]
  /\ gout' = NoRange
  /\ gup' = NoUpstream
  /\ gres' = NoResponse
  /\ grelay' = NoRelay
  /\ UNCHANGED outsideGateway

(***************************************************************************)
(* Share URL resolution (extractSurl)                                      *)
(*                                                                         *)
(* Text is a sequence of characters.  A URL is what new URL() makes of its *)
(* text: it parses or not, and has a surl query parameter and a pathname.  *)
(***************************************************************************)

\* characters of [A-Za-z0-9_-] that are tried, and the other characters
IdChars == {"1", "a", "s", "-"}
PathChars == {"/", "s", "1", "a"}

\* return null
Null == <<"<null>">>

\* u.searchParams.get("surl") of a URL without the parameter
NoParam == <<"<none>">>

\* all texts over an alphabet, from length lo to length hi
Texts(chars, lo, hi) == UNION {[1..n -> chars] : n \in lo..hi}

\* the share identifiers
Ids == Texts(IdChars, 1, MaxIdLen)

\* the query-parameter form of the share URL of identifier s
QueryForm(s) ==
  [parseable |-> TRUE, surl |-> s, pathname |-> <<"/", "s", "a">>]

\* the path-segment form of the share URL of identifier s
PathForm(s) ==
  [parseable |-> TRUE, surl |-> NoParam, pathname |-> <<"/", "s", "/", "1">> \o s]

\* the texts that are given to extractSurl
Urls ==
  {QueryForm(s) : s \in Ids} \cup {PathForm(s) : s \in Ids}
    \cup {[parseable |-> FALSE, surl |-> NoParam, pathname |-> <<>>]}
    \cup {[parseable |-> TRUE, surl |-> q, pathname |-> <<"/">> \o t] :
            q \in {NoParam, <<>>}, t \in Texts(PathChars, 0, MaxPathLen - 1)}

\* where /\/s\/([A-Za-z0-9_-]+)/ can match in a pathname
MatchStarts(path) ==
  {i \in 1..(Len(path) - 3) :
     /\ path[i] = "/" /\ path[i + 1] = "s" /\ path[i + 2] = "/"
     /\ path[i + 3] \in IdChars}

\* the end of the longest run of identifier characters that starts at i
RunEnd(path, i) ==
  CHOOSE j \in i..Len(path) :
    /\ \A k \in i..j : path[k] \in IdChars
    /\ j = Len(path) \/ path[j + 1] \notin IdChars

\* u.pathname.match(/\/s\/([A-Za-z0-9_-]+)/): m[1] of the leftmost match
PathMatch(path) ==
  IF MatchStarts(path) = {} THEN Null
  ELSE LET i == CHOOSE k \in MatchStarts(path) :
                  \A l \in MatchStarts(path) : k <= l
       IN SubSeq(path, i + 3, RunEnd(path, i + 3))

\* a string that is neither null nor empty
NonEmpty(text) == text # Null /\ text # NoParam /\ text # <<>>

\* extractSurl(url): null when new URL() throws or no form matches, the
\* identifier without one leading "1" otherwise
extractSurl(u) ==
  IF ~u.parseable THEN Null
  ELSE LET surl == IF NonEmpty(u.surl) THEN u.surl ELSE PathMatch(u.pathname)
       IN IF ~NonEmpty(surl) THEN Null
          ELSE IF Head(surl) = "1" THEN Tail(surl) ELSE surl

\* a call of extractSurl
ExtractCall(u) ==
  /\ xurl' = u
  /\ xres' = extractSurl(u)
  /\ UNCHANGED outsideResolve

\* the share URLs and the tokens that callers pass
ShareUrls ==
  { QueryForm(<<"a">>), PathForm(<<"-", "a">>),
    [parseable |-> FALSE, surl |-> NoParam, pathname |-> <<>>] }
JsTokens == {"tokA", "tokB"}

InitResolve ==
  /\ xurl = [parseable |-> FALSE, surl |-> NoParam, pathname |-> <<>>]
  /\ xres = Null

(***************************************************************************)
(* Authenticated listing (fetchAuthenticatedMetadata, fetchList)           *)
(***************************************************************************)

\* entries of the remote listings: a file and a directory of the share
\* root, a file and a directory inside that directory
RootEntries ==
  { [name |-> "a", ext |-> "mp4", path |-> "/a.mp4", isdir |-> "0"],
    [name |-> "d", ext |-> "", path |-> "/d", isdir |-> "1"] }
InnerEntries ==
  { [name |-> "b", ext |-> "zip", path |-> "/d/b.zip", isdir |-> "0"],
    [name |-> "e", ext |-> "", path |-> "/d/e", isdir |-> "1"] }

\* the listings of at most MaxList entries
Lists(entries) == UNION {[1..n -> entries] : n \in 0..MaxList}

\* what a fetchList call can meet: fetch() rejects, the body is not JSON,
\* or the body is an object with an errno and, perhaps, a list
ListAnswers(entries) ==
  { [kind |-> "rejected", errno |-> 0, hasList |-> FALSE, list |-> <<>>],
    [kind |-> "html", errno |-> 0, hasList |-> FALSE, list |-> <<>>] }
  \cup [kind : {"json"}, errno : {0, 4}, hasList : {FALSE}, list : {<<>>}]
  \cup [kind : {"json"}, errno : {0, 4}, hasList : {TRUE}, list : Lists(entries)]

\* no answer yet
NoAnswer == [kind |-> "none", errno |-> 0, hasList |-> FALSE, list |-> <<>>]

\* dir absent from the parameters of fetchList
NoDir == ""

\* guessType(name), by the extension of the name
guessType(ext) ==
  CASE ext \in {"mp4", "mkv", "avi", "mov", "webm"} -> "video"
    [] ext \in {"zip", "rar", "7z", "tar", "gz"} -> "archive"
    [] OTHER -> "other"

\* items.map(f => ({name, path, isFolder, type, ...}))
Output(items) ==
  [i \in DOMAIN items |->
     [name |-> items[i].name, path |-> items[i].path,
      isFolder |-> (items[i].isdir = "1"),
      type |-> IF items[i].isdir = "1" THEN "folder"
                                      ELSE guessType(items[i].ext)]]

\* the results of fetchAuthenticatedMetadata
AuthSuccess(items) ==
  [success |-> TRUE, count |-> Len(Output(items)), items |-> Output(items),
   error |-> "", errno |-> 0]
AuthFailure(error, errno) ==
  [success |-> FALSE, count |-> 0, items |-> <<>>, error |-> error,
   errno |-> errno]
NoResult ==
  [success |-> FALSE, count |-> 0, items |-> <<>>, error |-> "<none>",
   errno |-> 0]

\* what the catch block makes of a fetchList call that threw
Caught(answer) ==
  IF answer.kind = "html"
    THEN AuthFailure("Expected JSON, got HTML (verify/auth issue)", 0)
    ELSE AuthFailure("fetch failed", 0)

\* fetchAuthenticatedMetadata up to its first await: extractSurl, then the
\* listing of the share root
fetchAuthenticatedMetadata(u, jsToken) ==
  /\ apc = "idle"
  /\ IF ~NonEmpty(extractSurl(u))
       THEN /\ ares' = AuthFailure("Invalid TeraBox URL", 0)
            /\ apc' = "done"
            /\ UNCHANGED acalls
       ELSE /\ acalls' = <<[surl |-> extractSurl(u), jsToken |-> jsToken,
                            dir |-> NoDir]>>
            /\ apc' = "root"
            /\ UNCHANGED ares
  /\ UNCHANGED <<aroot, ainner>>

\* fetchAuthenticatedMetadata called
AuthFetchCall(u, jsToken) ==
  /\ fetchAuthenticatedMetadata(u, jsToken)
  /\ UNCHANGED outsideList

\* the listing of the root settled
RootListed(answer) ==
  /\ apc = "root"
  /\ aroot' = answer
  /\ IF answer.kind # "json"
       THEN /\ ares' = Caught(answer)
            /\ apc' = "done"
            /\ UNCHANGED acalls
       ELSE IF answer.errno # 0 \/ ~answer.hasList
         THEN /\ ares' = AuthFailure("Failed to fetch list: errno", answer.errno)
              /\ apc' = "done"
              /\ UNCHANGED acalls
         ELSE IF Len(answer.list) = 1 /\ answer.list[1].isdir = "1"
           THEN /\ acalls' = Append(acalls, [acalls[1] EXCEPT
                                               !.dir = answer.list[1].path])
                /\ apc' = "inner"
                /\ UNCHANGED ares
           ELSE /\ ares' = AuthSuccess(answer.list)
                /\ apc' = "done"
                /\ UNCHANGED acalls
  /\ UNCHANGED <<ainner, outsideList>>

\* the listing of the only directory settled
InnerListed(answer) ==
  /\ apc = "inner"
  /\ ainner' = answer
  /\ ares' = IF answer.kind # "json" THEN Caught(answer)
             ELSE IF answer.hasList THEN AuthSuccess(answer.list)
                  ELSE AuthSuccess(aroot.list)
  /\ apc' = "done"
  /\ UNCHANGED <<acalls, aroot, outsideList>>

\* the caller has the result; another call can be made
AuthFetchReturn ==
  /\ apc = "done"
  /\ apc' = "idle"
  /\ acalls' = <<>>
  /\ aroot' = NoAnswer
  /\ ainner' = NoAnswer
  /\ ares' = NoResult
  /\ UNCHANGED outsideList

InitList ==
  /\ apc = "idle"
  /\ acalls = <<>>
  /\ aroot = NoAnswer
  /\ ainner = NoAnswer
  /\ ares = NoResult

(***************************************************************************)
(* Public metadata fetch (fetchPublicMetadata)                             *)
(***************************************************************************)

\* what page.waitForResponse and response.json() can give: a timeout, a
\* body that does not parse, or an object with an errno and, perhaps, a list
InfoAnswers ==
  { [kind |-> "timeout", errno |-> 0, hasList |-> FALSE, list |-> <<>>],
    [kind |-> "html", errno |-> 0, hasList |-> FALSE, list |-> <<>>] }
  \cup [kind : {"json"}, errno : {0, 2}, hasList : {FALSE}, list : {<<>>}]
  \cup [kind : {"json"}, errno : {0, 2}, hasList : {TRUE}, list : Lists(RootEntries)]

\* the results of fetchPublicMetadata; thrown marks a rejected promise
PublicFailure(surl, error) ==
  [success |-> FALSE, surl |-> surl, type |-> "unknown", fileCount |-> -1,
   error |-> error, thrown |-> FALSE]
PublicSuccess(surl, type, fileCount) ==
  [success |-> TRUE, surl |-> surl, type |-> type, fileCount |-> fileCount,
   error |-> "", thrown |-> FALSE]
NoPublicResult == PublicFailure(<<>>, "<none>")

\* the classification, had it called every single item single
ClassifyByCountOnly(list) ==
  IF Len(list) = 1 THEN "single"
  ELSE IF Len(list) > 1 THEN "multiple" ELSE "unknown"

\* let type = "unknown"; if (list.length === 1) ... else if (list.length > 1)
Classify(list) ==
  IF Len(list) = 1 THEN (IF list[1].isdir = "1" THEN "folder" ELSE "single")
  ELSE IF Len(list) > 1 THEN "multiple" ELSE "unknown"

\* fetchPublicMetadata up to its first await: extractSurl, then the launch
\* of a headless browser
fetchPublicMetadata(u) ==
  /\ ppc = "idle"
  /\ IF ~NonEmpty(extractSurl(u))
       THEN /\ pres' = PublicFailure(<<>>, "Invalid TeraBox URL")
            /\ ppc' = "done"
       ELSE /\ pres' = PublicFailure(extractSurl(u), "<none>")
            /\ ppc' = "launching"
  /\ UNCHANGED <<pbrowser, pdata>>

\* fetchPublicMetadata called
PublicFetchCall(u) ==
  /\ fetchPublicMetadata(u)
  /\ UNCHANGED outsidePublic

\* chromium.launch resolved: newContext, newPage and page.goto follow
PublicLaunchOk ==
  /\ ppc = "launching"
  /\ pbrowser' = "open"
  /\ ppc' = "navigating"
  /\ UNCHANGED <<pdata, pres, outsidePublic>>

\* chromium.launch rejected: catch, and finally with browser still null
PublicLaunchFail ==
  /\ ppc = "launching"
  /\ pres' = PublicFailure(pres.surl, "launch failed")
  /\ ppc' = "done"
  /\ UNCHANGED <<pbrowser, pdata, outsidePublic>>

\* newContext, newPage and page.goto resolved: waitForResponse follows
PublicGotoOk ==
  /\ ppc = "navigating"
  /\ ppc' = "waiting"
  /\ UNCHANGED <<pbrowser, pdata, pres, outsidePublic>>

\* newContext, newPage or page.goto rejected: catch, then finally
PublicGotoFail ==
  /\ ppc = "navigating"
  /\ pres' = PublicFailure(pres.surl, "navigation failed")
  /\ ppc' = "closing"
  /\ UNCHANGED <<pbrowser, pdata, outsidePublic>>

\* waitForResponse and response.json() settled: the failure results, or
\* the classification of the listed items; then finally
PublicAnswered(answer) ==
  /\ ppc = "waiting"
  /\ pdata' = answer
  /\ pres' =
       IF answer.kind = "timeout" THEN PublicFailure(pres.surl, "Timeout 30000ms exceeded")
       ELSE IF answer.kind = "html" THEN PublicFailure(pres.surl, "Unexpected token")
       ELSE IF answer.errno # 0 THEN PublicFailure(pres.surl, "TeraBox API error: errno")
       ELSE LET list == IF answer.hasList THEN answer.list ELSE <<>>
            IN PublicSuccess(pres.surl, Classify(list), Len(list))
  /\ ppc' = "closing"
  /\ UNCHANGED <<pbrowser, outsidePublic>>

\* finally, had it left the browser alone
PublicCloseSkipped ==
  /\ ppc = "closing"
  /\ ppc' = "done"
  /\ UNCHANGED <<pbrowser, pdata, pres, outsidePublic>>

\* finally: await browser.close() resolved, the call returns
PublicCloseOk ==
  /\ ppc = "closing"
  /\ pbrowser' = "closed"
  /\ ppc' = "done"
  /\ UNCHANGED <<pdata, pres, outsidePublic>>

\* finally: await browser.close() rejected; the rejection replaces the
\* return value, and the browser may or may not be gone
PublicCloseFail ==
  /\ ppc = "closing"
  /\ pbrowser' \in {"open", "closed"}
  /\ pres' = [pres EXCEPT !.thrown = TRUE]
  /\ ppc' = "done"
  /\ UNCHANGED <<pdata, outsidePublic>>

\* the caller has the outcome; another call can be made
PublicFetchReturn ==
  /\ ppc = "done"
  /\ ppc' = "idle"
  /\ pbrowser' = "none"
  /\ pdata' = NoAnswer
  /\ pres' = NoPublicResult
  /\ UNCHANGED outsidePublic

InitPublic ==
  /\ ppc = "idle"
  /\ pbrowser = "none"
  /\ pdata = NoAnswer
  /\ pres = NoPublicResult

(***************************************************************************)
(* The library tables and the queue routes                                 *)
(*   POST /api/containers, POST /api/containers/bulk,                      *)
(*   DELETE /api/queue/:id, POST /api/queue/:id/public-fetch               *)
(***************************************************************************)

\* the ids of the rows of public_fetch_queue
ItemIds == 1..MaxItems

\* the urls that are posted: a share URL and a text that is no URL
PostedUrls ==
  { QueryForm(<<"a">>), [parseable |-> FALSE, surl |-> NoParam, pathname |-> <<>>] }

\* the bodies of POST /api/containers/bulk that pass bulkUploadSchema
UrlLists == UNION {[1..n -> PostedUrls] : n \in 1..MaxItems}

\* no queue item, no result, no container
NoItem == [id |-> 0, url |-> QueryForm(<<>>), status |-> "", attemptCount |-> 0]
NoContainer == 0

\* the row addToPublicFetchQueue inserts for a url
QueueRow(id, url) ==
  [id |-> id, url |-> url, status |-> "pending", attemptCount |-> 0]

\* the row createContainer inserts; from is history, the queue item whose
\* fetch made it
ContainerRow(id, url, type, from) ==
  [id |-> id, url |-> url, surl |-> extractSurl(url), type |-> type,
   status |-> "basic", fileCount |-> -1, from |-> from]

\* the ids of a set of rows
RowIds(rows) == {r.id : r \in rows}

\* POST /api/containers: 400 without a url, else addToPublicFetchQueue([url])
PostContainers(hasUrl, url) ==
  /\ bleft = <<>>
  /\ added < MaxItems
  /\ IF hasUrl THEN bleft' = <<url>> /\ lres' = 0
               ELSE bleft' = <<>> /\ lres' = 400
  /\ UNCHANGED <<tableVars, rqpc, rqitem, rqresult, rqmade, rqres,
                 publicVars, outsideQueue>>

\* POST /api/containers/bulk: 400 if the body does not parse, else
\* addToPublicFetchQueue(urls)
PostBulk(parsed, urls) ==
  /\ bleft = <<>>
  /\ added + Len(urls) <= MaxItems
  /\ IF parsed THEN bleft' = urls /\ lres' = 0
               ELSE bleft' = <<>> /\ lres' = 400
  /\ UNCHANGED <<tableVars, rqpc, rqitem, rqresult, rqmade, rqres,
                 publicVars, outsideQueue>>

\* addToPublicFetchQueue: one turn of its loop, and the 201 response of
\* the route after the last
QueueInsert ==
  /\ bleft # <<>>
  /\ queue' = queue \cup {QueueRow(added + 1, Head(bleft))}
  /\ added' = added + 1
  /\ bleft' = Tail(bleft)
  /\ lres' = IF Tail(bleft) = <<>> THEN 201 ELSE lres
  /\ UNCHANGED <<containers, files, rqpc, rqitem, rqresult, rqmade, rqres,
                 publicVars, outsideQueue>>

\* DELETE /api/queue/:id
QueueDelete(id) ==
  /\ queue' = {r \in queue : r.id # id}
  /\ UNCHANGED <<containers, files, added, queueVars, publicVars, outsideQueue>>

\* POST /api/queue/:id/public-fetch, request r, up to the update it
\* awaits: 404 without the row
QueueFetchCall(r, id) ==
  /\ IsNext(rqpc, r)
  /\ \A row \in queue : row.id = id => row.attemptCount <= MaxAttempts
  /\ IF \E row \in queue : row.id = id
       THEN /\ rqitem' = [rqitem EXCEPT ![r] = CHOOSE row \in queue : row.id = id]
            /\ rqpc' = [rqpc EXCEPT ![r] = "marking"]
            /\ rqres' = [rqres EXCEPT ![r] = 0]
       ELSE /\ rqitem' = [rqitem EXCEPT ![r] = NoItem]
            /\ rqpc' = [rqpc EXCEPT ![r] = "done"]
            /\ rqres' = [rqres EXCEPT ![r] = 404]
  /\ UNCHANGED <<tableVars, bleft, lres, rqresult, rqmade, publicVars,
                 outsideQueue>>

\* updateQueueItem(id, {status: "fetching"}), then fetchPublicMetadata is
\* called; the headless fetches are taken one at a time
QueueMarkFetching(r) ==
  /\ rqpc[r] = "marking"
  /\ queue' = {IF row.id = rqitem[r].id THEN [row EXCEPT !.status = "fetching"]
                                        ELSE row : row \in queue}
  /\ fetchPublicMetadata(rqitem[r].url)
  /\ rqpc' = [rqpc EXCEPT ![r] = "fetching"]
  /\ UNCHANGED <<containers, files, added, bleft, lres, rqitem, rqresult,
                 rqmade, rqres, outsideQueue>>

\* fetchPublicMetadata settled: a throw goes to the catch block (500), a
\* failure to the update of the row, a success to createContainer
QueueFetched(r) ==
  /\ rqpc[r] = "fetching"
  /\ ppc = "done"
  /\ rqresult' = [rqresult EXCEPT ![r] = pres]
  /\ IF pres.thrown
       THEN rqpc' = [rqpc EXCEPT ![r] = "done"] /\ rqres' = [rqres EXCEPT ![r] = 500]
       ELSE IF ~pres.success
         THEN rqpc' = [rqpc EXCEPT ![r] = "failing"] /\ UNCHANGED rqres
         ELSE rqpc' = [rqpc EXCEPT ![r] = "creating"] /\ UNCHANGED rqres
  /\ ppc' = "idle"
  /\ pbrowser' = "none"
  /\ pdata' = NoAnswer
  /\ pres' = NoPublicResult
  /\ UNCHANGED <<tableVars, bleft, lres, rqitem, rqmade, outsideQueue>>

\* the failed fetch, had it dropped the row
QueueMarkFailedRemoves(r) ==
  /\ rqpc[r] = "failing"
  /\ queue' = {row \in queue : row.id # rqitem[r].id}
  /\ rqpc' = [rqpc EXCEPT ![r] = "done"]
  /\ rqres' = [rqres EXCEPT ![r] = 400]
  /\ UNCHANGED <<containers, files, added, bleft, lres, rqitem, rqresult,
                 rqmade, publicVars, outsideQueue>>

\* updateQueueItem(id, {status: "failed", attemptCount + 1}) and the 400
QueueMarkFailed(r) ==
  /\ rqpc[r] = "failing"
  /\ queue' = {IF row.id = rqitem[r].id
                  THEN [row EXCEPT !.status = "failed",
                                   !.attemptCount = rqitem[r].attemptCount + 1]
                  ELSE row : row \in queue}
  /\ rqpc' = [rqpc EXCEPT ![r] = "done"]
  /\ rqres' = [rqres EXCEPT ![r] = 400]
  /\ UNCHANGED <<containers, files, added, bleft, lres, rqitem, rqresult,
                 rqmade, publicVars, outsideQueue>>

\* storage.createContainer({url: queueItem.url, type: result.type, ...})
QueueCreateContainer(r) ==
  /\ rqpc[r] = "creating"
  /\ LET id == Cardinality(containers) + 1
     IN /\ containers' =
             containers \cup
               {ContainerRow(id, rqitem[r].url, rqresult[r].type, rqitem[r].id)}
        /\ rqmade' = [rqmade EXCEPT ![r] = id]
  /\ rqpc' = [rqpc EXCEPT ![r] = "updating"]
  /\ UNCHANGED <<queue, files, added, bleft, lres, rqitem, rqresult, rqres,
                 publicVars, outsideQueue>>

\* storage.updateContainer(container.id, {fileCount: result.fileCount})
QueueUpdateContainer(r) ==
  /\ rqpc[r] = "updating"
  /\ containers' = {IF row.id = rqmade[r]
                       THEN [row EXCEPT !.fileCount = rqresult[r].fileCount]
                       ELSE row : row \in containers}
  /\ rqpc' = [rqpc EXCEPT ![r] = "removing"]
  /\ UNCHANGED <<queue, files, added, bleft, lres, rqitem, rqresult, rqmade,
                 rqres, publicVars, outsideQueue>>

\* storage.removeFromQueue(id) and the response with the container
QueueRemove(r) ==
  /\ rqpc[r] = "removing"
  /\ queue' = {row \in queue : row.id # rqitem[r].id}
  /\ rqpc' = [rqpc EXCEPT ![r] = "done"]
  /\ rqres' = [rqres EXCEPT ![r] = 200]
  /\ UNCHANGED <<containers, files, added, bleft, lres, rqitem, rqresult,
                 rqmade, publicVars, outsideQueue>>

\* the response is sent; the locals of the request are gone
QueueFetchDone(r) ==
  /\ rqpc[r] = "done"
  /\ \A o \in Requests : o > r => rqpc[o] = "idle"
  /\ rqpc' = [rqpc EXCEPT ![r] = "idle"]
  /\ rqitem' = [rqitem EXCEPT ![r] = NoItem]
  /\ rqresult' = [rqresult EXCEPT ![r] = NoPublicResult]
  /\ rqmade' = [rqmade EXCEPT ![r] = NoContainer]
  /\ rqres' = [rqres EXCEPT ![r] = 0]
  /\ UNCHANGED <<tableVars, bleft, lres, publicVars, outsideQueue>>

(***************************************************************************)
(* POST /api/containers/:id/auth-fetch                                     *)
(***************************************************************************)

\* the ids of the rows of containers that requests name
ContainerIds == 1..MaxItems

\* getActiveAuthToken() of a table without an active row
NoToken == [id |-> 0, provider |-> "none", jsToken |-> "", status |-> "none"]

\* the lookup, had it taken the first row whatever its status
getAnyAuthToken(rows) ==
  IF rows = <<>> THEN NoToken ELSE rows[1]

\* getActiveAuthToken(): rows[0] of the rows whose status is active
getActiveAuthToken(rows) ==
  LET active == SelectSeq(rows, LAMBDA r : r.status = "active")
  IN IF active = <<>> THEN NoToken ELSE active[1]

\* the responses of the route
NoReply == [status |-> 0, needsAuth |-> FALSE, count |-> 0]
Reply(status) == [NoReply EXCEPT !.status = status]

\* the row createFile inserts for an item, with its downloadUrl
FileRow(id, containerId, item) ==
  [id |-> id, containerId |-> containerId, name |-> item.name,
   path |-> item.path, type |-> item.type]

\* a fresh row id
FreshId(rows) == CHOOSE n \in 1..(Cardinality(rows) + 1) : n \notin RowIds(rows)

\* the items of a result that are no folders
Stored(result) == SelectSeq(result.items, LAMBDA item : ~item.isFolder)

\* request r up to getContainer: 401 with needsAuth without an active token
AuthFetchRouteCall(r, cid) ==
  /\ IsNext(rapc, r)
  /\ racid' = [racid EXCEPT ![r] = cid]
  /\ ratoken' = [ratoken EXCEPT ![r] = getActiveAuthToken(tokens)]
  /\ IF getActiveAuthToken(tokens) = NoToken
       THEN /\ rares' = [rares EXCEPT ![r] = [NoReply EXCEPT !.status = 401,
                                                            !.needsAuth = TRUE]]
            /\ rapc' = [rapc EXCEPT ![r] = "done"]
       ELSE /\ rares' = [rares EXCEPT ![r] = NoReply]
            /\ rapc' = [rapc EXCEPT ![r] = "container"]
  /\ UNCHANGED <<tableVars, raresult, raleft, listVars, outsideAuthFetch>>

\* getContainer(id): 404 without the row, else fetchAuthenticatedMetadata
\* is called with the url of the container and the token; the listings
\* are taken one at a time
AuthFetchGetContainer(r) ==
  /\ rapc[r] = "container"
  /\ IF \E c \in containers : c.id = racid[r]
       THEN /\ fetchAuthenticatedMetadata(
                 (CHOOSE c \in containers : c.id = racid[r]).url,
                 ratoken[r].jsToken)
            /\ rapc' = [rapc EXCEPT ![r] = "fetching"]
            /\ UNCHANGED rares
       ELSE /\ rares' = [rares EXCEPT ![r] = Reply(404)]
            /\ rapc' = [rapc EXCEPT ![r] = "done"]
            /\ UNCHANGED listVars
  /\ UNCHANGED <<tableVars, racid, ratoken, raresult, raleft, outsideAuthFetch>>

\* fetchAuthenticatedMetadata returned: 400 on a failure, else the files
\* of the container are to be replaced
AuthFetchFetched(r) ==
  /\ rapc[r] = "fetching"
  /\ apc = "done"
  /\ raresult' = [raresult EXCEPT ![r] = ares]
  /\ IF ares.success
       THEN rapc' = [rapc EXCEPT ![r] = "deleting"] /\ UNCHANGED rares
       ELSE /\ rapc' = [rapc EXCEPT ![r] = "done"]
            /\ rares' = [rares EXCEPT ![r] = Reply(400)]
  /\ apc' = "idle"
  /\ acalls' = <<>>
  /\ aroot' = NoAnswer
  /\ ainner' = NoAnswer
  /\ ares' = NoResult
  /\ UNCHANGED <<tableVars, racid, ratoken, raleft, outsideAuthFetch>>

\* deleteFilesByContainer(id); the loop will store the items that are no
\* folders
AuthFetchDeleteFiles(r) ==
  /\ rapc[r] = "deleting"
  /\ files' = {f \in files : f.containerId # racid[r]}
  /\ raleft' = [raleft EXCEPT ![r] = Stored(raresult[r])]
  /\ rapc' = [rapc EXCEPT ![r] = "storing"]
  /\ UNCHANGED <<queue, containers, added, racid, ratoken, raresult, rares,
                 listVars, outsideAuthFetch>>

\* one turn of the loop: createFile, updateFile, getFile
AuthFetchCreateFile(r) ==
  /\ rapc[r] = "storing"
  /\ raleft[r] # <<>>
  /\ files' = files \cup {FileRow(FreshId(files), racid[r], Head(raleft[r]))}
  /\ raleft' = [raleft EXCEPT ![r] = Tail(raleft[r])]
  /\ UNCHANGED <<queue, containers, added, rapc, racid, ratoken, raresult,
                 rares, listVars, outsideAuthFetch>>

\* updateContainer(id, {status: "expanded", fileCount: files.length}) and
\* the response with count: result.count
AuthFetchUpdateContainer(r) ==
  /\ rapc[r] = "storing"
  /\ raleft[r] = <<>>
  /\ containers' =
       {IF c.id = racid[r]
          THEN [c EXCEPT !.status = "expanded",
                         !.fileCount = Len(Stored(raresult[r]))]
          ELSE c : c \in containers}
  /\ rares' = [rares EXCEPT ![r] = [NoReply EXCEPT !.status = 200,
                                                    !.count = raresult[r].count]]
  /\ rapc' = [rapc EXCEPT ![r] = "done"]
  /\ UNCHANGED <<queue, files, added, racid, ratoken, raresult, raleft,
                 listVars, outsideAuthFetch>>

\* the responses are sent and no request is in flight; the locals of the
\* requests are gone
AuthFetchDone ==
  /\ \A r \in Requests : rapc[r] \in {"idle", "done"}
  /\ \E r \in Requests : rapc[r] = "done"
  /\ rapc' = [r \in Requests |-> "idle"]
  /\ racid' = [r \in Requests |-> NoContainer]
  /\ ratoken' = [r \in Requests |-> NoToken]
  /\ raresult' = [r \in Requests |-> NoResult]
  /\ raleft' = [r \in Requests |-> <<>>]
  /\ rares' = [r \in Requests |-> NoReply]
  /\ UNCHANGED <<tableVars, listVars, outsideAuthFetch>>

(***************************************************************************)
(* Duplicate detection                                                     *)
(*   SQLiteStorage.detectDuplicates, PATCH and DELETE /api/duplicates/:id, *)
(*   POST /api/duplicates/:id/delete-container                             *)
(***************************************************************************)

\* the statuses PATCH /api/duplicates/:id accepts
DuplicateStatuses == {"pending", "ignored", "deleted"}

\* a row of containers with the columns detectDuplicates compares
StoredContainer(id, url, title, type, fileCount) ==
  [title |-> title] @@ [ContainerRow(id, url, type, 0) EXCEPT !.fileCount = fileCount]

\* the rows a library can hold under one id: between them every rule
\* matches one pair and no rule matches another; -1 is a null fileCount
StoredContainers(id) ==
  { StoredContainer(id, QueryForm(<<"a">>), "t1", "video", 2),
    StoredContainer(id, QueryForm(<<"a">>), "t2", "folder", -1),
    StoredContainer(id, PathForm(<<"-", "a">>), "t1", "video", 2),
    StoredContainer(id, PathForm(<<"-", "a">>), "t2", "video", 2) }

\* the two containers of a record, in no order
PairOf(d) == {d.sourceContainerId, d.matchContainerId}

\* the row detectDuplicates inserts
DuplicateRow(id, a, b, rule) ==
  [id |-> id, sourceContainerId |-> a, matchContainerId |-> b, rule |-> rule,
   status |-> "pending"]

\* getContainers: the rows in the order of the table
RECURSIVE Listing(_)
Listing(rows) ==
  IF rows = {} THEN <<>>
  ELSE LET last == CHOOSE r \in rows : \A o \in rows : o.id <= r.id
       IN  Append(Listing(rows \ {last}), last)

\* const existingPairs: both directions of every record, whatever its status
ExistingPairsOfPending(rows) ==
  UNION { {<<d.sourceContainerId, d.matchContainerId>>,
           <<d.matchContainerId, d.sourceContainerId>>} :
          d \in {r \in rows : r.status = "pending"} }
ExistingPairs(rows) ==
  UNION { {<<d.sourceContainerId, d.matchContainerId>>,
           <<d.matchContainerId, d.sourceContainerId>>} : d \in rows }

\* the three rules, in the order they are tried; "" is let rule = null
Rule(a, b) ==
  IF a.url = b.url THEN "exact_url"
  ELSE IF a.title = b.title /\ a.fileCount = b.fileCount /\ a.type = b.type
       THEN "name_metadata"
  ELSE IF a.fileCount = b.fileCount /\ a.type = b.type /\ a.fileCount > 0
       THEN "metadata_only"
  ELSE ""

\* the turns of the two loops from (i, j) on that reach db.insert
Inserting ==
  { p \in (1..Len(dlist)) \X (1..Len(dlist)) :
      /\ p[1] < p[2]
      /\ p[1] > dij[1] \/ (p[1] = dij[1] /\ p[2] >= dij[2])
      /\ <<dlist[p[1]].id, dlist[p[2]].id>> \notin dpairs
      /\ <<dlist[p[2]].id, dlist[p[1]].id>> \notin dpairs
      /\ Rule(dlist[p[1]], dlist[p[2]]) # "" }

\* the first of them
NextInsert ==
  CHOOSE p \in Inserting :
    \A q \in Inserting : p[1] < q[1] \/ (p[1] = q[1] /\ p[2] <= q[2])

\* detectDuplicates up to its first await: getContainers
DetectCall ==
  /\ dpc \in {"idle", "done"}
  /\ dpc' = "listed"
  /\ dlist' = Listing(containers)
  /\ dpairs' = {}
  /\ dij' = <<1, 2>>
  /\ dnew' = 0
  /\ dquiet' = TRUE
  /\ dsecond' = (dquiet /\ dpc = "done")
  /\ UNCHANGED <<duplicates, containers, outsideDuplicates>>

\* getDuplicates has answered: existingPairs is built
DetectRead ==
  /\ dpc = "listed"
  /\ dpc' = "loop"
  /\ dpairs' = ExistingPairs(duplicates)
  /\ UNCHANGED <<duplicates, dlist, dij, dnew, dquiet, dsecond,
                 containers, outsideDuplicates>>

\* the loops up to the next db.insert
DetectInsert ==
  /\ dpc = "loop"
  /\ Inserting # {}
  /\ LET a == dlist[NextInsert[1]]
         b == dlist[NextInsert[2]]
     IN  /\ duplicates' =
              duplicates \cup {DuplicateRow(FreshId(duplicates), a.id, b.id, Rule(a, b))}
         /\ dnew' = dnew + 1
         /\ dpairs' = dpairs \cup {<<a.id, b.id>>}
         /\ dij' = <<NextInsert[1], NextInsert[2] + 1>>
  /\ UNCHANGED <<dpc, dlist, dquiet, dsecond, containers, outsideDuplicates>>

\* the loops run out: return newDuplicates
DetectReturn ==
  /\ dpc = "loop"
  /\ Inserting = {}
  /\ dpc' = "done"
  /\ UNCHANGED <<duplicates, dlist, dpairs, dij, dnew, dquiet, dsecond, containers, outsideDuplicates>>

\* updateDuplicateStatus, as PATCH /api/duplicates/:id calls it
UpdateDuplicateStatus(id, status) ==
  /\ dpc \in {"idle", "done"}
  /\ id \in RowIds(duplicates)
  /\ duplicates' =
       {IF d.id = id THEN [d EXCEPT !.status = status] ELSE d : d \in duplicates}
  /\ UNCHANGED <<dpc, dlist, dpairs, dij, dnew, dquiet, dsecond,
                 containers, outsideDuplicates>>

\* deleteDuplicate, as DELETE /api/duplicates/:id calls it
DeleteDuplicate(id) ==
  /\ dpc \in {"idle", "done"}
  /\ id \in RowIds(duplicates)
  /\ duplicates' = {d \in duplicates : d.id # id}
  /\ dquiet' = FALSE
  /\ dsecond' = FALSE
  /\ UNCHANGED <<dpc, dlist, dpairs, dij, dnew,
                 containers, outsideDuplicates>>

\* POST /api/duplicates/:id/delete-container for a record that exists and
\* one of its two containers: deleteContainer, whose ON DELETE CASCADE
\* removes the records of the container, then updateDuplicateStatus marks
\* the record deleted if it is still there
DeleteContainerRoute(id, containerId) ==
  /\ dpc \in {"idle", "done"}
  /\ \E d \in duplicates :
       d.id = id /\ containerId \in {d.sourceContainerId, d.matchContainerId}
  /\ containers' = {c \in containers : c.id # containerId}
  /\ duplicates' =
       { IF d.id = id THEN [d EXCEPT !.status = "deleted"] ELSE d :
         d \in {r \in duplicates : containerId \notin PairOf(r)} }
  /\ dquiet' = FALSE
  /\ dsecond' = FALSE
  /\ UNCHANGED <<dpc, dlist, dpairs, dij, dnew, outsideDuplicates>>

(***************************************************************************)
(* MpvController (src/electron/mpv-controller.ts)                          *)
(***************************************************************************)

\* private player: any = null
NoPlayer == 0

\* a load() call that is not in flight
NoLoad == [pc |-> "idle", run |-> NoPlayer]

\* the processes that run
Running == {p \in Processes : mprocs[p] = "running"}

\* the process new mpv(...) spawns next
NextProcess == CHOOSE p \in Processes : mprocs[p] = "none" /\ \A o \in Processes : o < p => mprocs[o] # "none"

\* doInitialize() up to its await: new mpv(...) spawns the process p and
\* the start-up wait begins, or new mpv(...) throws and the catch block
\* runs; initialize() then keeps the promise
doInitialize(throws) ==
  IF throws
    THEN /\ initializing' = FALSE
         /\ initPromise' = <<NoPlayer>>
         /\ UNCHANGED <<player, mprocs, mruns>>
    ELSE /\ \E p \in Processes : mprocs[p] = "none"
         /\ player' = NextProcess
         /\ mprocs' = [mprocs EXCEPT ![NextProcess] = "running"]
         /\ mruns' = mruns \cup {NextProcess}
         /\ initializing' = TRUE
         /\ initPromise' = <<NextProcess>>

\* initialize() returns at once
Returns == initialized

\* initialize() returns the promise of the run in progress
Joins == ~initialized /\ initializing /\ initPromise # <<>>

\* initialize() up to the promise it returns
initialize(throws) ==
  IF Returns \/ Joins
    THEN UNCHANGED <<player, initializing, initPromise, mprocs, mruns>>
    ELSE doInitialize(throws)

\* initialize(), called on its own
InitializeCall(throws) ==
  /\ initialize(throws)
  /\ throws => ~(Returns \/ Joins)
  /\ UNCHANGED <<initialized, isBuffering, mlistening, mload, mquit, outsideMpv>>

\* the start-up wait of the run that spawned p is over: initialized = true,
\* and setupEventListeners() listens to what this.player now is
StartupOver(p) ==
  /\ p \in mruns
  /\ mruns' = mruns \ {p}
  /\ initialized' = TRUE
  /\ initializing' = FALSE
  /\ mlistening' = IF player = NoPlayer THEN mlistening
                                         ELSE mlistening \cup {player}
  /\ UNCHANGED <<player, initPromise, isBuffering, mprocs, mload, mquit,
                 outsideMpv>>

\* resetState()
resetState ==
  /\ initialized' = FALSE
  /\ initializing' = FALSE
  /\ initPromise' = <<>>
  /\ player' = NoPlayer
  /\ isBuffering' = FALSE

\* this.player.on("crashed"): the process p ends on its own
Crashed(p) ==
  /\ p \in Running
  /\ mprocs' = [mprocs EXCEPT ![p] = "exited"]
  /\ IF p \in mlistening
       THEN resetState
       ELSE UNCHANGED <<initialized, initializing, initPromise, player, isBuffering>>
  /\ UNCHANGED <<mlistening, mruns, mload, mquit, outsideMpv>>

\* this.player.on("quit"): the user closes the window of the process p
Quit(p) ==
  /\ p \in Running
  /\ mprocs' = [mprocs EXCEPT ![p] = "exited"]
  /\ IF p \in mlistening
       THEN resetState
       ELSE UNCHANGED <<initialized, initializing, initPromise, player, isBuffering>>
  /\ UNCHANGED <<mlistening, mruns, mload, mquit, outsideMpv>>

\* load() up to its first await: initialize() if there is no player or it
\* is not initialized, else player.load(url)
LoadCall(l, throws) ==
  /\ IsNext([c \in Loads |-> mload[c].pc], l)
  /\ IF player # NoPlayer /\ initialized
       THEN /\ ~throws
            /\ isBuffering' = TRUE
            /\ mload' = [mload EXCEPT ![l] = [pc |-> "loading", run |-> player]]
            /\ UNCHANGED <<player, initializing, initPromise, mprocs, mruns>>
       ELSE /\ initialize(throws)
            /\ throws => ~(Returns \/ Joins)
            /\ mload' = [mload EXCEPT ![l] =
                 [pc |-> "waiting",
                  run |-> IF Returns \/ throws THEN NoPlayer
                          ELSE IF Joins THEN initPromise[1] ELSE NextProcess]]
            /\ UNCHANGED isBuffering
  /\ UNCHANGED <<initialized, mlistening, mquit, outsideMpv>>

\* initialize() has returned: this.player.load(url), a TypeError when
\* this.player is null
LoadProceeds(l) ==
  /\ mload[l].pc = "waiting"
  /\ mload[l].run \notin mruns
  /\ isBuffering' = TRUE
  /\ mload' = [mload EXCEPT ![l] =
       IF player = NoPlayer THEN [pc |-> "no_player", run |-> NoPlayer]
                            ELSE [pc |-> "loading", run |-> player]]
  /\ UNCHANGED <<player, initialized, initializing, initPromise, mprocs,
                 mlistening, mruns, mquit, outsideMpv>>

\* player.load(url) settles: {success: true}, or the catch block
LoadSettles(l, ok) ==
  /\ mload[l].pc = "loading"
  /\ ok => mload[l].run \in Running
  /\ mload' = [mload EXCEPT ![l].pc = IF ok THEN "ok" ELSE "failed"]
  /\ UNCHANGED <<player, initialized, initializing, initPromise, isBuffering,
                 mprocs, mlistening, mruns, mquit, outsideMpv>>

\* load() has returned
LoadReturn(l) ==
  /\ mload[l].pc \in {"ok", "failed", "no_player"}
  /\ \A o \in Loads : o > l => mload[o].pc = "idle"
  /\ mload' = [mload EXCEPT ![l] = NoLoad]
  /\ UNCHANGED <<player, initialized, initializing, initPromise, isBuffering,
                 mprocs, mlistening, mruns, mquit, outsideMpv>>

\* quit() up to its await: player.quit() if there is a player
QuitCall ==
  /\ mquit = NoPlayer
  /\ player # NoPlayer
  /\ mquit' = player
  /\ UNCHANGED <<player, initialized, initializing, initPromise, isBuffering,
                 mprocs, mlistening, mruns, mload, outsideMpv>>

\* player.quit() has settled, the process is gone: resetState()
QuitReturn ==
  /\ mquit # NoPlayer
  /\ mprocs' = [mprocs EXCEPT ![mquit] = "exited"]
  /\ resetState
  /\ mquit' = NoPlayer
  /\ UNCHANGED <<mlistening, mruns, mload, outsideMpv>>

\* the controller as constructed
InitMpv ==
  /\ player = NoPlayer
  /\ initialized = FALSE
  /\ initializing = FALSE
  /\ initPromise = <<>>
  /\ isBuffering = FALSE
  /\ mprocs = [p \in Processes |-> "none"]
  /\ mlistening = {}
  /\ mruns = {}
  /\ mload = [l \in Loads |-> NoLoad]
  /\ mquit = NoPlayer

\* an empty duplicate_records, and no detection run
InitDuplicates ==
  /\ duplicates = {}
  /\ dpc = "idle"
  /\ dlist = <<>>
  /\ dpairs = {}
  /\ dij = <<1, 2>>
  /\ dnew = 0
  /\ dquiet = FALSE
  /\ dsecond = FALSE

InitAuthFetch ==
  /\ rapc = [r \in Requests |-> "idle"]
  /\ racid = [r \in Requests |-> NoContainer]
  /\ ratoken = [r \in Requests |-> NoToken]
  /\ raresult = [r \in Requests |-> NoResult]
  /\ raleft = [r \in Requests |-> <<>>]
  /\ rares = [r \in Requests |-> NoReply]

InitQueueRoutes ==
  /\ bleft = <<>>
  /\ lres = 0
  /\ rqpc = [r \in Requests |-> "idle"]
  /\ rqitem = [r \in Requests |-> NoItem]
  /\ rqresult = [r \in Requests |-> NoPublicResult]
  /\ rqmade = [r \in Requests |-> NoContainer]
  /\ rqres = [r \in Requests |-> 0]

\* a database that is created empty
InitLibrary ==
  /\ InitAuthFetch
  /\ InitQueueRoutes
  /\ queue = {}
  /\ containers = {}
  /\ files = {}
  /\ added = 0

InitAuth ==
  /\ now = 0
  /\ activeAuthSession = NoSession
  /\ activeBrowserContext = NoContext
  /\ open = {}
  /\ spc = [p \in StartCalls |-> "idle"]
  /\ sid = [p \in StartCalls |-> -1]
  /\ captured = [p \in StartCalls |-> FALSE]
  /\ sret = [p \in StartCalls |-> NoSession]
  /\ early = NoSession
  /\ obs = {}
  /\ cpc = [c \in CloseCalls |-> "idle"]
  /\ ctarget = [c \in CloseCalls |-> NoContext]
  /\ preClose = {}

InitPolls ==
  /\ qpc = [q \in Polls |-> "idle"]
  /\ qdata = [q \in Polls |-> NoAuthData]
  /\ qres = ""
  /\ overlapped = {}
  /\ revoked = [done |-> FALSE, begun |-> {}, saving |-> FALSE]

InitTokens ==
  /\ tokens = <<>>
  /\ InitPolls

InitGateway ==
  /\ gpc = "idle"
  /\ greq = [route |-> "", range |-> NoRange, file |-> ""]
  /\ gout = NoRange
  /\ gup = NoUpstream
  /\ gres = NoResponse
  /\ grelay = NoRelay

Init == InitAuth /\ InitTokens /\ InitGateway /\ InitResolve /\ InitList /\ InitPublic
  /\ InitLibrary /\ InitDuplicates /\ InitMpv

NextAuth ==
  \/ StartReturnsExisting
  \/ \E p \in StartCalls : StartCall(p)
  \/ \E p \in StartCalls : LaunchOk(p)
  \/ \E p \in StartCalls : LaunchFail(p)
  \/ \E p \in StartCalls : GotoOk(p)
  \/ \E p \in StartCalls : GotoFail(p)
  \/ \E p \in StartCalls, req \in PageRequests : ObserveRequest(p, req)
  \/ \E o \in obs : CookiesDone(o)
  \/ \E p \in StartCalls : BrowserClosed(p)
  \/ \E c \in CloseCalls : CloseCall(c)
  \/ \E c \in CloseCalls : CloseReturn(c)
  \/ Tick

\* the Session Capture Controller
SpecAuth == Init /\ [][NextAuth]_vars

\* the requests of a page whose qualifying requests all carry one token
SingleTokenRequests == {req \in PageRequests : req.jsToken # "tokB"}

NextController ==
  \/ StartReturnsExisting
  \/ \E p \in SingleStarts : StartCall(p)
  \/ \E p \in SingleStarts : LaunchOk(p)
  \/ \E p \in SingleStarts : LaunchFail(p)
  \/ \E p \in SingleStarts : GotoOk(p)
  \/ \E p \in SingleStarts : GotoFail(p)
  \/ \E p \in SingleStarts, req \in SingleTokenRequests : ObserveRequest(p, req)
  \/ \E o \in obs : CookiesDone(o)
  \/ \E p \in SingleStarts : BrowserClosed(p)
  \/ \E c \in CloseCalls : CloseCall(c)
  \/ \E c \in CloseCalls : CloseReturn(c)
  \/ Tick

\* one capture session, the controller alone
SpecController == Init /\ [][NextController]_vars

NextSingle ==
  \/ StartReturnsExisting
  \/ \E p \in SingleStarts : StartCall(p)
  \/ \E p \in SingleStarts : LaunchOk(p)
  \/ \E p \in SingleStarts : LaunchFail(p)
  \/ \E p \in SingleStarts : GotoOk(p)
  \/ \E p \in SingleStarts : GotoFail(p)
  \/ \E p \in SingleStarts, req \in PageRequests : ObserveRequest(p, req)
  \/ \E o \in obs : CookiesDone(o)
  \/ \E p \in SingleStarts : BrowserClosed(p)
  \/ \E c \in CloseCalls : CloseCall(c)
  \/ \E c \in CloseCalls : CloseReturn(c)
  \/ Tick
  \/ StatusRoute
  \/ \E q \in Polls : PollCall(q)
  \/ \E q \in Polls : SaveInvalidate(q)
  \/ \E q \in Polls : SaveInsert(q)
  \/ InvalidateRoute

\* one capture session, with the /api/auth routes and the Token Store
SpecSingle == Init /\ [][NextSingle]_vars

NextStore ==
  \/ \E q \in Polls, authData \in AuthDatas : SaveCall(q, authData)
  \/ \E q \in Polls : SaveInvalidate(q)
  \/ \E q \in Polls : SaveInsert(q)
  \/ InvalidateRoute

\* the Token Store alone, its operations called in any interleaving
SpecStore == Init /\ [][NextStore]_vars

NextResolve == \E u \in Urls : ExtractCall(u)

\* extractSurl over the share URLs and other texts
SpecResolve == Init /\ [][NextResolve]_vars

NextList ==
  \/ \E u \in ShareUrls, t \in JsTokens : AuthFetchCall(u, t)
  \/ \E answer \in ListAnswers(RootEntries) : RootListed(answer)
  \/ \E answer \in ListAnswers(InnerEntries) : InnerListed(answer)
  \/ AuthFetchReturn

\* fetchAuthenticatedMetadata, one call at a time
SpecList == Init /\ [][NextList]_vars

NextPublic ==
  \/ \E u \in ShareUrls : PublicFetchCall(u)
  \/ PublicLaunchOk
  \/ PublicLaunchFail
  \/ PublicGotoOk
  \/ PublicGotoFail
  \/ \E answer \in InfoAnswers : PublicAnswered(answer)
  \/ PublicCloseOk
  \/ PublicCloseFail
  \/ PublicFetchReturn

\* fetchPublicMetadata, one call at a time
SpecPublic == Init /\ [][NextPublic]_vars

\* fetchPublicMetadata at work for its caller
PublicSteps ==
  \/ PublicLaunchOk
  \/ PublicLaunchFail
  \/ PublicGotoOk
  \/ PublicGotoFail
  \/ \E answer \in InfoAnswers : PublicAnswered(answer)
  \/ PublicCloseOk
  \/ PublicCloseFail

NextQueue ==
  \/ \E hasUrl \in BOOLEAN, u \in PostedUrls : PostContainers(hasUrl, u)
  \/ \E parsed \in BOOLEAN, urls \in UrlLists : PostBulk(parsed, urls)
  \/ QueueInsert
  \/ \E id \in ItemIds : QueueDelete(id)
  \/ \E r \in Requests, id \in ItemIds : Quiet(rqpc) /\ QueueFetchCall(r, id)
  \/ \E r \in Requests : QueueMarkFetching(r)
  \/ PublicSteps
  \/ \E r \in Requests : QueueFetched(r)
  \/ \E r \in Requests : QueueMarkFailed(r)
  \/ \E r \in Requests : QueueCreateContainer(r)
  \/ \E r \in Requests : QueueUpdateContainer(r)
  \/ \E r \in Requests : QueueRemove(r)
  \/ \E r \in Requests : QueueFetchDone(r)

\* the queue-first workflow: URLs are queued, fetched, made containers,
\* one public-fetch request after the other
SpecQueue == Init /\ [][NextQueue]_vars

\* the same with public-fetch requests that arrive while another is
\* awaiting the database
NextQueueOverlap ==
  \/ NextQueue
  \/ \E r \in Requests, id \in ItemIds : ~Quiet(rqpc) /\ QueueFetchCall(r, id)

SpecQueueOverlap == Init /\ [][NextQueueOverlap]_vars

\* what an earlier run can have left in auth_tokens: nothing, a token
\* that is active, a token that was invalidated
StoredTokens ==
  {<<>>} \cup {Insert(<<>>, authData) : authData \in AuthDatas}
         \cup {Demote(Insert(<<>>, authData)) : authData \in AuthDatas}

\* what an earlier run can have left in containers and files: nothing, a
\* container, a container with a file
StoredLibrary ==
  LET c == ContainerRow(1, QueryForm(<<"a">>), "folder", 0)
      f == FileRow(1, 1, [name |-> "old", path |-> "/old.mp4", type |-> "video"])
  IN { [containers |-> {}, files |-> {}],
       [containers |-> {c}, files |-> {}],
       [containers |-> {c}, files |-> {f}] }

\* the server started on the database file of an earlier run
InitStored ==
  /\ InitAuth /\ InitPolls /\ InitGateway /\ InitResolve /\ InitList
  /\ InitPublic /\ InitAuthFetch /\ InitQueueRoutes
  /\ tokens \in StoredTokens
  /\ \E lib \in StoredLibrary : containers = lib.containers /\ files = lib.files
  /\ queue = {}
  /\ added = 0
  /\ InitDuplicates
  /\ InitMpv

\* what an earlier run can have left in duplicate_records: nothing, or a
\* record of the first two containers in either direction and of any status
StoredDuplicates ==
  {{}} \cup
  { {[DuplicateRow(1, p[1], p[2], "exact_url") EXCEPT !.status = status]} :
      p \in {<<1, 2>>, <<2, 1>>}, status \in DuplicateStatuses }

\* the server started on a library of containers
InitDetect ==
  /\ InitAuth /\ InitTokens /\ InitGateway /\ InitResolve /\ InitList
  /\ InitPublic /\ InitAuthFetch /\ InitQueueRoutes
  /\ \E rows \in [1..MaxContainers -> UNION {StoredContainers(id) : id \in 1..MaxContainers}] :
       /\ \A id \in 1..MaxContainers : rows[id].id = id
       /\ containers = {rows[id] : id \in 1..MaxContainers}
  /\ duplicates \in StoredDuplicates
  /\ dpc = "idle" /\ dlist = <<>> /\ dpairs = {} /\ dij = <<1, 2>> /\ dnew = 0
  /\ dquiet = FALSE /\ dsecond = FALSE
  /\ queue = {} /\ files = {} /\ added = 0
  /\ InitMpv

NextDuplicates ==
  \/ DetectCall
  \/ DetectRead
  \/ DetectInsert
  \/ DetectReturn
  \/ \E id \in 1..MaxContainers * MaxContainers, status \in DuplicateStatuses :
       UpdateDuplicateStatus(id, status)
  \/ \E id \in 1..MaxContainers * MaxContainers : DeleteDuplicate(id)
  \/ \E id \in 1..MaxContainers * MaxContainers, containerId \in 1..MaxContainers :
       DeleteContainerRoute(id, containerId)

\* the duplicates routes on a stored library, one request at a time
SpecDuplicates == InitDetect /\ [][NextDuplicates]_vars

\* fetchAuthenticatedMetadata at work for its caller
ListSteps ==
  \/ \E answer \in ListAnswers(RootEntries) : RootListed(answer)
  \/ \E answer \in ListAnswers(InnerEntries) : InnerListed(answer)

NextAuthFetch ==
  \/ \E r \in Requests, cid \in ContainerIds :
       Quiet(rapc) /\ AuthFetchRouteCall(r, cid)
  \/ \E r \in Requests : AuthFetchGetContainer(r)
  \/ ListSteps
  \/ \E r \in Requests : AuthFetchFetched(r)
  \/ \E r \in Requests : AuthFetchDeleteFiles(r)
  \/ \E r \in Requests : AuthFetchCreateFile(r)
  \/ \E r \in Requests : AuthFetchUpdateContainer(r)
  \/ AuthFetchDone
  \/ InvalidateRoute

\* the auth-fetch route on a stored library, one request at a time
SpecAuthFetch == InitStored /\ [][NextAuthFetch]_vars

\* the same with auth-fetch requests that arrive while another is awaiting
\* the listing or the database
NextAuthFetchOverlap ==
  \/ NextAuthFetch
  \/ \E r \in Requests, cid \in ContainerIds :
       ~Quiet(rapc) /\ AuthFetchRouteCall(r, cid)

SpecAuthFetchOverlap == InitStored /\ [][NextAuthFetchOverlap]_vars

NextMpv ==
  \/ \E throws \in BOOLEAN : InitializeCall(throws)
  \/ \E p \in Processes : StartupOver(p)
  \/ \E p \in Processes : Crashed(p)
  \/ \E p \in Processes : Quit(p)
  \/ \E l \in Loads, throws \in BOOLEAN : LoadCall(l, throws)
  \/ \E l \in Loads : LoadProceeds(l)
  \/ \E l \in Loads, ok \in BOOLEAN : LoadSettles(l, ok)
  \/ \E l \in Loads : LoadReturn(l)
  \/ QuitCall
  \/ QuitReturn

\* the MpvController of the desktop shell
SpecMpv == Init /\ [][NextMpv]_vars

NextGateway ==
  \/ \E route \in {"stream", "download"}, range \in Ranges,
        file \in {"missing", "nolink", "ok"} : GatewayCall(route, range, file)
  \/ \E up \in Upstreams : StreamRespond(up)
  \/ \E up \in Upstreams : DownloadRespond(up)
  \/ FetchFailed
  \/ BodyEnd
  \/ BodyError
  \/ ClientDisconnect
  \/ NextRequest

\* the Streaming/Download Gateway, one request at a time
SpecGateway == Init /\ [][NextGateway]_vars

\* fetch() settles, either way
FetchSettles ==
  \/ \E up \in Upstreams : StreamRespond(up)
  \/ \E up \in Upstreams : DownloadRespond(up)
  \/ FetchFailed

\* the gateway with the progress its runtime gives: a fetch() settles and
\* a body that is being read comes to its end.  Nothing makes the remote
\* end fail, the client leave or another request arrive.
SpecGatewayLive ==
  /\ Init
  /\ [][NextGateway]_vars
  /\ WF_vars(FetchSettles)
  /\ WF_vars(BodyEnd)

(***************************************************************************)
(* Claims about the Token Store and the Session Capture Controller         *)
(***************************************************************************)

\* the rows of auth_tokens with status active
ActiveRows(rows) == {i \in DOMAIN rows : rows[i].status = "active"}

\* C1: in every reachable state of the Token Store at most one token has
\* status active, also when two saveAuthToken calls overlap.
C1_AtMostOneActive == Cardinality(ActiveRows(tokens)) <= 1

\* C2: at every moment at most one browser launched by the controller is
\* open, whatever the interleaving of startAuthSession() calls.
C2_AtMostOneBrowser == Cardinality(open) <= 1

\* C3: once a session has status success or failed, no step shows the same
\* sessionId with another status, whichever of the request observer, the
\* browser-closed callback and the continuation of start() runs next.
C3_TerminalIsFinal ==
  [][(/\ activeAuthSession.status \in {"success", "failed"}
      /\ activeAuthSession'.sessionId = activeAuthSession.sessionId)
       => activeAuthSession'.status = activeAuthSession.status]_vars

\* a step of startAuthSession() up to its first await
StartStep == StartReturnsExisting \/ \E p \in StartCalls : StartCall(p)

\* C4: startAuthSession() called while the session is waiting_for_login
\* returns that session (identical sessionId), changes neither the session
\* nor the browser handle and launches no browser.
C4_StartWhileWaiting ==
  [][(StartStep /\ activeAuthSession.status = "waiting_for_login")
       => /\ early' = activeAuthSession
          /\ early'.sessionId = activeAuthSession'.sessionId
          /\ activeAuthSession' = activeAuthSession
          /\ activeBrowserContext' = activeBrowserContext
          /\ open' = open
          /\ spc' = spc]_vars

\* a start() call returned the session that was waiting, which the call
\* that launched the browser had returned before
C4_Witness ==
  /\ early.status = "waiting_for_login"
  /\ early = activeAuthSession
  /\ \E p \in StartCalls : spc[p] = "done" /\ sret[p] = early /\ open = {p}

\* C5: once closeAuthSession() has returned, no browser launched by a
\* start() call that began before it is open.
C5_NoBrowserAfterClose == \A p \in open : p \notin preClose

\* no start() call is between its first and its last step
NoStartInFlight == \A p \in StartCalls : spc[p] \in {"idle", "done"}

\* C6: closeAuthSession() with no start() in flight leaves the session null
\* (GET /api/auth/status reports "none") and the browser handle null, and a
\* close() called in that state changes nothing.
C6_CloseClears ==
  [][\A c \in CloseCalls :
       /\ (CloseReturn(c) /\ NoStartInFlight)
            => /\ ctarget[c] \notin open'
               /\ activeAuthSession' = NoSession
               /\ StatusReport(activeAuthSession') = "none"
               /\ activeBrowserContext' = NoContext
       /\ (CloseCall(c) /\ NoStartInFlight /\ activeBrowserContext = NoContext)
            => /\ activeAuthSession' = NoSession
               /\ StatusReport(activeAuthSession') = "none"
               /\ activeBrowserContext' = NoContext
               /\ cpc' = cpc
       /\ (/\ CloseCall(c)
           /\ activeAuthSession = NoSession
           /\ activeBrowserContext = NoContext)
            => UNCHANGED <<activeAuthSession, activeBrowserContext, open, cpc>>]_vars

\* close() has returned after a capture session had reached success with
\* its browser open: the browser is closed, session and handle are null
C6_Witness ==
  /\ preClose = {1}
  /\ spc[1] = "done"
  /\ captured[1]
  /\ open = {}
  /\ \A c \in CloseCalls : cpc[c] = "idle"
  /\ activeAuthSession = NoSession
  /\ activeBrowserContext = NoContext

\* C7: when the capture browser closes while the session is not success,
\* the session becomes failed with the same sessionId and the handle is
\* released; when it closes after a capture, the session stays as it is and
\* the handle is released.
C7_BrowserClosed ==
  [][\A p \in StartCalls :
       (BrowserClosed(p) /\ activeAuthSession # NoSession)
         => /\ activeBrowserContext' = NoContext
            /\ IF activeAuthSession.status # "success"
                 THEN /\ activeAuthSession'.status = "failed"
                      /\ activeAuthSession'.sessionId = activeAuthSession.sessionId
                      /\ activeAuthSession'.message # ""
                 ELSE activeAuthSession' = activeAuthSession]_vars

\* C8: when saveAuthToken(B) runs to completion after an earlier save and
\* overlaps no other save, exactly one token is active, it is the row made
\* for B, and every earlier row is expired.
C8_SaveAfterSave ==
  [][\A q \in Polls :
       (SaveInsert(q) /\ q \notin overlapped /\ Len(tokens) >= 1)
         => LET n == Len(tokens') IN
              /\ n = Len(tokens) + 1
              /\ ActiveRows(tokens') = {n}
              /\ tokens'[n].jsToken = qdata[q].jsToken
              /\ \A i \in 1..(n - 1) : tokens'[i].status = "expired"]_vars

\* two saves have run one after the other
C8_Witness ==
  /\ Len(tokens) = 2
  /\ overlapped = {}
  /\ Saving = {}
  /\ tokens[1].status = "expired"
  /\ tokens[2].status = "active"
  /\ tokens[1].jsToken # tokens[2].jsToken

(***************************************************************************)
(* Claims about the Streaming/Download Gateway                             *)
(***************************************************************************)

\* the handler has dealt with an upstream response
Answered == gpc \in {"relaying", "done"} /\ gup # NoUpstream

\* C9: for a stream request that upstream answers successfully, no Range
\* header or Range bytes=0- gives local status 200 without Content-Range;
\* any other Range value gives 206 with the upstream Content-Range.
C9_RangeRewrite ==
  (Answered /\ greq.route = "stream" /\ Ok(gup.status))
    => IF greq.range \in {NoRange, "bytes=0-"}
         THEN gres.status = 200 /\ gres.contentRange = ""
         ELSE gres.status = 206 /\ gres.contentRange = gup.contentRange

\* C9 as amended: a Range header with an empty value counts as no header.
C9_RangeRewriteAmended ==
  (Answered /\ greq.route = "stream" /\ Ok(gup.status))
    => IF greq.range \in {NoRange, "", "bytes=0-"}
         THEN gres.status = 200 /\ gres.contentRange = ""
         ELSE gres.status = 206 /\ gres.contentRange = gup.contentRange

\* the opening probe, answered 206 with Content-Range upstream, went out as
\* 200 without it
C9_Witness ==
  /\ Answered
  /\ greq.route = "stream"
  /\ greq.range = "bytes=0-"
  /\ gup.status = 206
  /\ gup.contentRange # ""
  /\ gres.status = 200
  /\ gres.contentRange = ""

\* C10: a non-successful upstream status gives an error result and no body
\* relay, expired exactly for 401 and 403; a successful one gives no error.
C10_UpstreamErrors ==
  Answered
    => IF Ok(gup.status)
         THEN gres.error = ""
         ELSE /\ gres.error # ""
              /\ ~gres.relay
              /\ gpc = "done"
              /\ gres.expired = (gup.status \in {401, 403})

\* an upstream 401 was reported as an expired link
C10_Witness ==
  /\ Answered
  /\ gup.status = 401
  /\ gres.error # ""
  /\ gres.expired
  /\ ~gres.relay

\* C11: once the local client has disconnected during the relay of a body,
\* the upstream connection is eventually released.
C11_DisconnectReleases ==
  (grelay.client = "gone") ~> (grelay.upstream # "open")

(***************************************************************************)
(* Claims about share URL resolution                                       *)
(***************************************************************************)

\* C15: extractSurl returns the same reference for the query-parameter
\* form and the path-segment form of every share identifier, and null for
\* a text that does not parse or matches neither form.
C15_SameReference ==
  /\ \A s \in Ids :
       xurl = QueryForm(s) => xres = extractSurl(PathForm(s)) /\ xres # Null
  /\ (~xurl.parseable \/ (~NonEmpty(xurl.surl) /\ MatchStarts(xurl.pathname) = {}))
       => xres = Null

(***************************************************************************)
(* Claims about the authenticated listing                                  *)
(***************************************************************************)

\* the root listing is exactly one entry, a directory
OnlyFolder(answer) ==
  /\ answer.kind = "json" /\ answer.errno = 0 /\ answer.hasList
  /\ Len(answer.list) = 1
  /\ answer.list[1].isdir = "1"

\* C12: when the root listing is exactly one directory, a successful result
\* holds the items of the one listing call scoped to that directory's path,
\* never the wrapper entry, and no further call is made.
C12_UnwrapOnlyFolder ==
  (apc = "done" /\ OnlyFolder(aroot) /\ ares.success)
    => /\ Len(acalls) = 2
       /\ acalls[2].dir = aroot.list[1].path
       /\ ares.items = Output(ainner.list)
       /\ \A i \in DOMAIN ares.items : ares.items[i].path # aroot.list[1].path

\* the answers the call has had from its listing calls
Answers == {aroot, ainner} \ {NoAnswer}

\* C13: a listing call answered with a body that is not JSON gives a
\* failure of kind UnexpectedResponse, one answered with a non-zero errno a
\* failure of kind RemoteApiError; the kinds differ and neither is success.
C13_FailureKinds ==
  apc = "done" =>
    /\ (\E answer \in Answers : answer.kind = "html")
         => ~ares.success /\ ares.error = "Expected JSON, got HTML (verify/auth issue)"
    /\ (\E answer \in Answers : answer.kind = "json" /\ answer.errno # 0)
         => ~ares.success /\ ares.error = "Failed to fetch list: errno"

\* the listing whose entries a successful call used
ListingUsed == IF OnlyFolder(aroot) THEN ainner.list ELSE aroot.list

\* C20: no item of a successful result is a folder, and the count is the
\* number of non-directory entries of the listing used.
C20_FilesOnly ==
  (apc = "done" /\ ares.success)
    => /\ \A i \in DOMAIN ares.items : ~ares.items[i].isFolder
       /\ ares.count =
            Cardinality({i \in DOMAIN ListingUsed : ListingUsed[i].isdir # "1"})

(***************************************************************************)
(* Claims about the public metadata fetch                                  *)
(***************************************************************************)

\* C16: a call never throws to its caller: every failure of a remote call,
\* the failure to close the browser included, is returned as a result.
C16_NeverThrows == ppc = "done" => ~pres.thrown

\* C17: a call that launched a browser has closed it by the time it
\* returns, whatever it returns.
C17_BrowserTornDown == (ppc = "done" /\ ~pres.thrown) => pbrowser # "open"

\* a call has returned a failure after its browser was launched
C17_Witness ==
  /\ ppc = "done"
  /\ ~pres.thrown /\ ~pres.success
  /\ pdata.kind = "timeout"
  /\ pbrowser = "closed"

\* C18: a successful call reports the number n of listed items, and type
\* unknown for n = 0, folder or single for n = 1 as the item is a directory
\* or not, multiple for n > 1.
C18_Classification ==
  (ppc = "done" /\ pres.success) =>
    LET list == IF pdata.hasList THEN pdata.list ELSE <<>>
        n == Len(list)
    IN /\ pres.fileCount = n
       /\ n = 0 => pres.type = "unknown"
       /\ (n = 1 /\ list[1].isdir = "1") => pres.type = "folder"
       /\ (n = 1 /\ list[1].isdir # "1") => pres.type = "single"
       /\ n > 1 => pres.type = "multiple"

\* a share of exactly one directory was fetched
C18_Witness ==
  /\ ppc = "done" /\ pres.success /\ ~pres.thrown
  /\ pres.type = "folder"
  /\ pres.fileCount = 1

(***************************************************************************)
(* Claims about the queue routes                                           *)
(***************************************************************************)

\* a step of POST /api/containers or POST /api/containers/bulk
PostStep ==
  \/ \E hasUrl \in BOOLEAN, u \in PostedUrls : PostContainers(hasUrl, u)
  \/ \E parsed \in BOOLEAN, urls \in UrlLists : PostBulk(parsed, urls)
  \/ QueueInsert

C14_NeedsAuth ==
  [][\A r \in Requests, cid \in ContainerIds :
       (AuthFetchRouteCall(r, cid) /\ ActiveRows(tokens) = {})
         => /\ rares'[r].status = 401
            /\ rares'[r].needsAuth
            /\ rapc'[r] = "done"
            /\ apc' = apc /\ acalls' = acalls
            /\ UNCHANGED <<containers, files, tokens>>]_vars

\* a request for a stored container with a file was rejected, the only
\* token being an invalidated one
C14_Witness ==
  \E r \in Requests :
    /\ rapc[r] = "done"
    /\ rares[r].status = 401 /\ rares[r].needsAuth
    /\ tokens # <<>>
    /\ \E c \in containers : c.id = racid[r]
    /\ \E f \in files : f.containerId = racid[r]

C22_FirstCaptureWins ==
  [][(/\ activeAuthSession.status = "success"
      /\ activeAuthSession'.status = "success"
      /\ activeAuthSession'.sessionId = activeAuthSession.sessionId)
       => activeAuthSession'.authData = activeAuthSession.authData]_vars

\* C23: once /api/stream relays a body, whatever the body stream emits
\* (end, error, or both in either order) the response is ended, and ended
\* once; the events change neither the status nor the headers of the
\* response; and while the client is there the response is eventually ended
C23_EndedOnce ==
  /\ []((greq.route = "stream" /\ grelay.emitted # <<>>)
          => (gres.ended /\ gres.ends = 1))
  /\ [][(greq.route = "stream" /\ (BodyEnd \/ BodyError))
          => /\ gres'.status = gres.status
             /\ gres'.contentRange = gres.contentRange
             /\ gres'.error = gres.error]_vars
  /\ (greq.route = "stream" /\ gres.relay /\ ~gres.ended)
       ~> (gres.ended \/ grelay.client = "gone")

\* the body stream of a stream response emitted end and then error, and
\* the error listener found the response ended
C23_Witness ==
  /\ greq.route = "stream"
  /\ grelay.emitted = <<"end", "error">>
  /\ gres.status \in {200, 206}
  /\ gres.ended /\ gres.ends = 1

\* the browser-closed callback or the request observer of start() call p
\* runs
EarlierCallback(p) ==
  \/ BrowserClosed(p)
  \/ \E o \in obs : o.owner = p /\ CookiesDone(o)

\* C24: when the callbacks installed for an earlier capture session run
\* while the session is that of a later start() call, the session keeps
\* the later sessionId and the browser handle still names the later browser
C24_EarlierCallbacks ==
  [][\A p \in StartCalls, q \in StartCalls :
       (/\ p < q
        /\ spc[q] # "idle"
        /\ sid[q] # sid[p]
        /\ activeAuthSession.sessionId = sid[q]
        /\ EarlierCallback(p))
         => /\ activeAuthSession'.sessionId = sid[q]
            /\ activeBrowserContext = q => activeBrowserContext' = q]_vars

\* the rows of the Token Store made for an AuthData
RowsOf(authData) ==
  {i \in DOMAIN tokens : tokens[i].jsToken = authData.jsToken}

\* C25: during one capture session, however many times GET /api/auth/status
\* is polled, the Token Store holds at most one row for the AuthData of
\* the session
C25_OneRowPerCapture ==
  \A authData \in AuthDatas : Cardinality(RowsOf(authData)) <= 1

\* C26: after POST /api/auth/invalidate, made while no save was under way,
\* no token is active as long as no start() call has begun since; a poll
\* of the session that had reached success before does not make one active
C26_NoActiveAfterInvalidate ==
  (revoked.done /\ ~revoked.saving /\ Begun \subseteq revoked.begun)
    => ActiveRows(tokens) = {}

\* C27: every stream response sent with status 206 carries a Content-Range
\* header, also when upstream answered 200 with the full body
C27_PartialHasContentRange ==
  (greq.route = "stream" /\ gres.status = 206) => gres.contentRange # ""
\* C28: no two containers are made from one queue item, also when
\* public-fetch requests for the item overlap, and an item from which a
\* container was made is out of the queue once the request that made the
\* container has completed
C28_OneContainerPerItem ==
  /\ \A c, d \in containers : (c.from # 0 /\ c.from = d.from) => c.id = d.id
  /\ \A c \in containers :
       (c.from # 0 /\ \A r \in Requests : rqmade[r] # c.id)
         => \A row \in queue : row.id # c.from

\* the files stored for a container
FilesOf(cid) == {f \in files : f.containerId = cid}

\* a file is the row createFile makes of an item
FileOfItem(f, item) ==
  f.name = item.name /\ f.path = item.path /\ f.type = item.type

\* the files of a container are the items of a result that are no folders,
\* each as often as the result has it, and fileCount is their number
StoredFrom(cid, result) ==
  LET items == Stored(result)
  IN  /\ Cardinality(FilesOf(cid)) = Len(items)
      /\ \A f \in FilesOf(cid) : \E i \in DOMAIN items : FileOfItem(f, items[i])
      /\ \A i \in DOMAIN items :
           Cardinality({f \in FilesOf(cid) : FileOfItem(f, items[i])})
             = Cardinality({k \in DOMAIN items : items[k] = items[i]})
      /\ \A c \in containers : c.id = cid => c.fileCount = Len(items)

\* C29: when the auth-fetch requests in flight have all completed and one
\* for a container succeeded, the files of the container are the items that
\* are no folders of the result of one of the requests that succeeded, and
\* fileCount is their number, also when the requests overlapped; a request
\* whose fetch fails changes no file
C29_FilesOfOneResult ==
  /\ [](\A cid \in ContainerIds :
          (/\ \A r \in Requests : rapc[r] \in {"idle", "done"}
           /\ \E r \in Requests :
                rapc[r] = "done" /\ racid[r] = cid /\ rares[r].status = 200)
            => \E r \in Requests :
                 /\ rapc[r] = "done" /\ racid[r] = cid /\ rares[r].status = 200
                 /\ StoredFrom(cid, raresult[r]))
  /\ [][\A r \in Requests :
          (AuthFetchFetched(r) /\ ~ares.success)
            => (files' = files /\ rares'[r].status = 400)]_vars

\* C30: in every state of MpvController initialized = true implies that
\* there is a player, whatever the interleaving of initialize(), load(),
\* quit() and the quit and crashed events of mpv; a load() called where
\* there is no player and no start-up in progress spawns an mpv process
\* unless new mpv(...) throws; and no two mpv processes run at a time
C30_InitializedHasPlayer ==
  /\ [](initialized => player # NoPlayer)
  /\ [][\A l \in Loads :
          (LoadCall(l, FALSE) /\ player = NoPlayer /\ ~initializing)
            => (player' # NoPlayer /\ player' \in Running')]_vars
  /\ [](Cardinality(Running) <= 1)

====
